---------------------------- MODULE Spec2Model ----------------------------
(***************************************************************************)
(* A model of the AgentFennec ingestion, indexing and retrieval pipeline.  *)
(* Each subsystem has its own variables, initial predicate, next-state      *)
(* relation and specification; the subsystems not under study stay idle.    *)
(***************************************************************************)
EXTENDS Integers, Sequences, FiniteSets, TLC

VARIABLES
    disk,        \* index builder: the files under app_dir, path -> [last_modified, size, kind]
    ixExists,    \* index builder: the index directory (docs/ and other/) exists
    ix,          \* index builder: partition -> set of path keys in the inverted index
    meta,        \* index builder: partition -> [state, table] of file_metadata.pkl
    lastRun,     \* index builder: what the run that has just ended did (history)
    edits,       \* index builder: what happened to the tree since the last run (history)
    text,        \* analyzer: the text at hand, a sequence of characters
    stored,      \* analyzer: the terms the index holds for the text, once indexed
    queried,     \* analyzer: the terms parse_query_into_terms returned for the text
    origins,     \* shard extractor: the files rglob yields, in order, with what befalls each
    shPos,       \* shard extractor: index of the next file of the loop
    shState,     \* shard extractor: [file_id, id_to_file, relative_path_to_id, files]
    shReturned,  \* shard extractor: convert_all_files has returned its mapping
    lakeShards,  \* search: the ids of the shard files in the shard directory
    mappingJson, \* search: mapping.json, [state, id_to_file]
    docsIx,      \* search: the path keys stored in the docs index
    response,    \* search: the last /search response, [index_type, results]
    tree,        \* filename search: the files under app_dir, as [dir, name]
    file_index,  \* filename search: the module's file_index, [state, exact, files]
    file_index_needs_update, \* filename search: the module's flag of that name
    searched,    \* filename search: what the last search_files call returned
    project,     \* code analyzer: the .py files of the project, path -> [parses, statements]
    analysis,    \* code analyzer: what analyze_code_with_enhancements returned
    graph,       \* code analyzer: what build_enhanced_graph made of it, [state, nodes, edges]
    appDirSetting, \* /file: the value of app_dir in config.json, a path
    webFiles,    \* /file: the files that exist, as resolved absolute paths
    served,      \* /file: the last response of /file, [state, path, status, read]
    folderDisk,  \* folder tree: the directories under app_dir, [folder, files, children]
    threshold,   \* folder tree: file_count_threshold of config.json
    rendered,    \* folder tree: the last tree displayed, [state, extension, max_depth, summary, lines]
    retry,       \* content search: the call of search_file_with_retry, [pc, query, attempt, result]
    retryLog,    \* content search: the requests the call has made (history)
    store,       \* ingestion: the shard directory and the index directory, [index_dir, shards, mapping, index, meta, lock]
    runs,        \* ingestion: request -> [pc, force, part, written, holding, before]
    observed,    \* ingestion: what the last reader found, [state, by, store]
    configFile,  \* configuration: config.json, [complete, config]
    configLock,  \* configuration: _config_lock, [owner, count]
    callers,     \* configuration: thread -> [pc, op, arguments, config] of its call into config_manager
    completed,   \* configuration: the effect of the completed writes, [expected, contents] (history)
    layout,      \* module names: the directories and files of a deeper tree, [dirs, files]
    resolution,  \* module names: the last name or import resolved, [kind, of, name, result]
    fanout,      \* folder tree: a call of build_folder_tree_json, [pc, directory, max_depth, node, pending]
    worker,      \* /update: the update_index thread, [pc, put, raised]
    progress_queue, \* /update: the messages put and not yet taken
    stream,      \* /update: the event stream, [pc, emitted]
    agent_search_queries, \* agent: the list the global agent_search_queries names
    agent_file_paths, \* agent: the list the global agent_file_paths names
    agents       \* agent: request -> [pc, queries, paths, alone, result] of its run_search_agent (queries, paths, alone: history)

ixVars == <<disk, ixExists, ix, meta, lastRun, edits>>
anVars == <<text, stored, queried>>
shVars == <<origins, shPos, shState, shReturned>>
seVars == <<lakeShards, mappingJson, docsIx, response>>
fiVars == <<tree, file_index, file_index_needs_update, searched>>
biVars == <<project, analysis, graph>>
svVars == <<appDirSetting, webFiles, served>>
foVars == <<folderDisk, threshold, rendered>>
rtVars == <<retry, retryLog>>
inVars == <<store, runs, observed>>
cmVars == <<configFile, configLock, callers, completed>>
laVars == <<layout, resolution>>
faVars == <<fanout>>
stVars == <<worker, progress_queue, stream>>
agVars == <<agent_search_queries, agent_file_paths, agents>>

vars == <<ixVars, anVars, shVars, seVars, fiVars, biVars, svVars, foVars, rtVars, inVars, cmVars, laVars, faVars, stVars, agVars>>

(***************************************************************************)
(* Index builder (index_optimizer.py)                                      *)
(***************************************************************************)

\* Bounds of the model.
MaxMtime == 2

Sizes == {10, 20}
Kinds == {"text", "nul", "undecodable"}
Partitions == {"docs", "other"}

\* config.get("doc_lake_dir", "__docs__")
DocLakeDir == "__docs__"

\* The files the source tree may hold: directory (relative to app_dir), name, extension.
ShardPath == [dir |-> DocLakeDir, name |-> "1", ext |-> ".txt"]
MappingPath == [dir |-> DocLakeDir, name |-> "mapping", ext |-> ".json"]
SourceA == [dir |-> "src", name |-> "a", ext |-> ".py"]
SourceB == [dir |-> "src", name |-> "b", ext |-> ".md"]
ImagePath == [dir |-> "src", name |-> "logo", ext |-> ".png"]
OldNotes == [dir |-> "__docs__old", name |-> "notes", ext |-> ".txt"]

Paths == {ShardPath, MappingPath, SourceA, SourceB, ImagePath, OldNotes}

\* Files whose attributes vary in the model; the others are present throughout.
VaryingPaths == {ShardPath, SourceA, SourceB}

\* Files that come and go in the model.
RemovablePaths == {ShardPath, SourceA}

\* binary_extensions, as loaded from the YAML list
binary_extensions == {".png", ".exe"}

Signatures == [last_modified : 1..MaxMtime, size : Sizes]
FileStates == [last_modified : 1..MaxMtime, size : Sizes, kind : Kinds]

\* The states each file takes in the model: the shard may become undecodable, the
\* first source file may change size and gain a NUL byte, the second only its mtime.
StatesOf(p) ==
    {st \in FileStates :
        /\ p = ShardPath => st.size = 10 /\ st.kind \in {"text", "undecodable"}
        /\ p = SourceA => st.kind \in {"text", "nul"}
        /\ p \notin {ShardPath, SourceA} => st.size = 10 /\ st.kind = "text"}

Present(p) == p \in DOMAIN disk

\* get_file_metadata: the change signature of a file on disk
get_file_metadata(p) == [last_modified |-> disk[p].last_modified, size |-> disk[p].size]

\* the directory names of the model as texts: the name of the shard directory,
\* and what may follow it
DirText(dir) ==
    CASE dir = "__docs__" -> <<"__docs__">>
      [] dir = "__docs__old" -> <<"__docs__", "old">>
      [] OTHER -> <<dir>>

\* str.startswith
HasPrefix(s, prefix) ==
    Len(s) >= Len(prefix) /\ SubSeq(s, 1, Len(prefix)) = prefix

\* abs_file_path.startswith(docs_lake_abs): both begin with app_dir and a
\* separator, then the one goes on with the directory of the file and the
\* other ends with the name of the shard directory
InDocsLake(p) == HasPrefix(DirText(p.dir), DirText(DocLakeDir))

\* is_binary_file: a NUL byte in the first kilobyte
is_binary_file(p) == disk[p].kind = "nul"

\* open(..., encoding="utf-8").read() succeeds
Readable(p) == disk[p].kind # "undecodable"

\* The walk's partition of the files on disk (lines 126-155).
Walked(part) ==
    {p \in Paths :
        /\ Present(p)
        /\ p.ext \notin binary_extensions
        /\ IF part = "docs"
              THEN InDocsLake(p) /\ p.ext = ".txt"
              ELSE ~InDocsLake(p)}

\* docs_current_metadata / other_current_metadata
CurrentMetadata(part) == [p \in Walked(part) |-> get_file_metadata(p)]

\* force_rebuild after the directory checks and the two metadata loads (lines 64-108)
EffectiveForce(force) ==
    \/ force
    \/ ~ixExists
    \/ meta["docs"].state = "corrupt"
    \/ meta["other"].state = "corrupt"

\* docs_previous_metadata / other_previous_metadata (lines 93-108)
EmptyTable == [p \in {} |-> 0]

PreviousMetadata(part, force) ==
    IF EffectiveForce(force) \/ meta[part].state # "ok"
       THEN EmptyTable
       ELSE meta[part].table

\* A dirty test that compares the mtime the wrong way round.
IsDirtyInverted(p, prev, sig, force) ==
    \/ force
    \/ p \notin DOMAIN prev
    \/ prev[p].last_modified = sig.last_modified
    \/ prev[p].size # sig.size

\* A dirty test that forgets the mtime and looks at the size only.
IsDirtySizeOnly(p, prev, sig, force) ==
    \/ force
    \/ p \notin DOMAIN prev
    \/ prev[p].size # sig.size

\* the dirty test of lines 146-148 and 152-154
IsDirty(p, prev, sig, force) ==
    \/ force
    \/ p \notin DOMAIN prev
    \/ prev[p].last_modified # sig.last_modified
    \/ prev[p].size # sig.size

\* docs_files_to_update / other_files_to_update
FilesToUpdate(part, force) ==
    {p \in Walked(part) :
        IsDirty(p, PreviousMetadata(part, force), get_file_metadata(p),
                EffectiveForce(force))}

\* whether the partition's writer is opened at all (lines 158 and 193)
PartitionTouched(part, force) ==
    FilesToUpdate(part, force) # {} \/ EffectiveForce(force)

\* the delete_by_term calls of a run (lines 162-166, 197-201)
DeleteCalls(part, force) ==
    IF PartitionTouched(part, force) /\ ~EffectiveForce(force)
       THEN {p \in DOMAIN PreviousMetadata(part, force) : p \notin Walked(part)}
       ELSE {}

\* the update_document calls of a run (lines 167-181, 202-216)
UpsertCalls(part, force) ==
    IF PartitionTouched(part, force)
       THEN {p \in FilesToUpdate(part, force) : ~is_binary_file(p) /\ Readable(p)}
       ELSE {}

\* the index a run opens: create_in empties it, open_dir keeps it (lines 111-118)
OpenedIndex(part, force) == IF EffectiveForce(force) THEN {} ELSE ix[part]

\* the committed index of a partition after the run
CommittedIndex(part, force) ==
    IF PartitionTouched(part, force)
       THEN (OpenedIndex(part, force) \ DeleteCalls(part, force))
               \cup UpsertCalls(part, force)
       ELSE OpenedIndex(part, force)

\* the persisted metadata of a partition after the run (lines 185-186, 220-221)
PersistedMetadata(part, force) ==
    IF PartitionTouched(part, force)
       THEN [state |-> "ok", table |-> CurrentMetadata(part)]
       ELSE meta[part]

\* update_index(index_dir, app_dir, force_rebuild)
UpdateIndex(force) ==
    /\ ixExists' = TRUE
    /\ ix' = [part \in Partitions |-> CommittedIndex(part, force)]
    /\ meta' = [part \in Partitions |-> PersistedMetadata(part, force)]
    /\ lastRun' = [ran |-> TRUE,
                   force |-> force,
                   since |-> edits,
                   metaBefore |-> meta,
                   upserted |-> [part \in Partitions |-> UpsertCalls(part, force)],
                   deleted |-> [part \in Partitions |-> DeleteCalls(part, force)]]
    /\ edits' = <<"none">>
    /\ UNCHANGED disk

\* What the tree went through since the last run: nothing, one change of one
\* file's mtime alone, or anything else.
NoMeta == [part \in Partitions |-> [state |-> "missing", table |-> EmptyTable]]

\* The record of the last run is kept only until the tree changes again.
NoRun ==
    [ran |-> FALSE, force |-> FALSE, since |-> <<"many">>, metaBefore |-> NoMeta,
     upserted |-> [part \in Partitions |-> {}],
     deleted |-> [part \in Partitions |-> {}]]

NoteEdit(p, kind) ==
    /\ edits' = IF edits = <<"none">> /\ kind = "touch"
                   THEN <<"touch", p>>
                   ELSE <<"many">>
    /\ lastRun' = NoRun

\* A file appears in the source tree.
CreateFile(p, st) ==
    /\ ~Present(p)
    /\ disk' = [q \in DOMAIN disk \cup {p} |-> IF q = p THEN st ELSE disk[q]]
    /\ NoteEdit(p, "create")
    /\ UNCHANGED <<ixExists, ix, meta>>

\* A file is removed from the source tree.
RemoveFile(p) ==
    /\ Present(p)
    /\ disk' = [q \in DOMAIN disk \ {p} |-> disk[q]]
    /\ NoteEdit(p, "remove")
    /\ UNCHANGED <<ixExists, ix, meta>>

\* A file's mtime changes, its size and content staying what they were.
TouchFile(p, m) ==
    /\ Present(p)
    /\ m # disk[p].last_modified
    /\ disk' = [disk EXCEPT ![p].last_modified = m]
    /\ NoteEdit(p, "touch")
    /\ UNCHANGED <<ixExists, ix, meta>>

\* A file is rewritten: size or content change, the mtime may or may not.
RewriteFile(p, st) ==
    /\ Present(p)
    /\ st # disk[p]
    /\ st.size # disk[p].size \/ st.kind # disk[p].kind
    /\ disk' = [disk EXCEPT ![p] = st]
    /\ NoteEdit(p, "rewrite")
    /\ UNCHANGED <<ixExists, ix, meta>>

\* A metadata sidecar becomes unreadable (pickle.load raises).
CorruptMetadata(part) ==
    /\ meta[part].state = "ok"
    /\ meta' = [meta EXCEPT ![part] = [state |-> "corrupt", table |-> EmptyTable]]
    /\ edits' = <<"many">>
    /\ lastRun' = NoRun
    /\ UNCHANGED <<disk, ixExists, ix>>

IndexStart ==
    /\ \E present \in SUBSET RemovablePaths :
       \E varying \in [(present \cup (Paths \ RemovablePaths)) \cap VaryingPaths
                            -> FileStates] :
          /\ \A p \in DOMAIN varying : varying[p] \in StatesOf(p)
          /\ disk = [p \in present \cup (Paths \ RemovablePaths) |->
                        IF p \in DOMAIN varying THEN varying[p]
                        ELSE [last_modified |-> 1, size |-> 10, kind |-> "text"]]
    /\ ixExists = FALSE
    /\ ix = [part \in Partitions |-> {}]
    /\ meta = NoMeta
    /\ lastRun = NoRun
    /\ edits = <<"many">>

IndexNext ==
    \/ \E force \in BOOLEAN : UpdateIndex(force)
    \/ \E p \in RemovablePaths : \E st \in StatesOf(p) : CreateFile(p, st)
    \/ \E p \in RemovablePaths : RemoveFile(p)
    \/ \E p \in VaryingPaths, m \in 1..MaxMtime : TouchFile(p, m)
    \/ \E p \in VaryingPaths : \E st \in StatesOf(p) : RewriteFile(p, st)
    \/ \E part \in Partitions : CorruptMetadata(part)

\* The index builder before any run, over an empty source tree.
IndexIdle ==
    /\ disk = [p \in Paths \ RemovablePaths |->
                  [last_modified |-> 1, size |-> 10, kind |-> "text"]]
    /\ ixExists = FALSE
    /\ ix = [part \in Partitions |-> {}]
    /\ meta = NoMeta
    /\ lastRun = NoRun
    /\ edits = <<"many">>

(***************************************************************************)
(* Canonical analyzer (index_optimizer.py, search_enhancer.py)             *)
(***************************************************************************)

\* Bounds of the model.
MaxWords == 3
MaxWordLen == 41

\* LengthFilter(min=2, max=39)
LengthMin == 2
LengthMax == 39

\* StopFilter(minsize=2) inside StandardAnalyzer()
StopMinSize == 2

Rep(c, n) == [i \in 1..n |-> c]

\* \w of the tokenizer's pattern, over the characters of the model
WordChars == {"a", "b", "c", "d", "e", "n", "x", "A", "B", "N", "X"}

\* str.lower()
Lower(c) ==
    CASE c = "A" -> "a"
      [] c = "B" -> "b"
      [] c = "N" -> "n"
      [] c = "X" -> "x"
      [] OTHER -> c

\* The stop words of StandardAnalyzer that the model's characters can spell.
STOP_WORDS == {<<"a">>, <<"a", "n">>, <<"a", "n", "d">>, <<"b", "e">>, <<"c", "a", "n">>}

\* The words a text is made of in the model.
Vocabulary ==
    {<<"a">>, <<"a", "b">>, <<"a", "b", "c", "d", "e">>, <<"A", "n">>, <<"A", "B">>,
     <<"a", ".", "b">>, Rep("X", LengthMax)}
        \cup {Rep("x", n) : n \in (LengthMax - 1)..MaxWordLen}

RECURSIVE JoinWords(_)
JoinWords(ws) ==
    IF ws = <<>> THEN <<>>
    ELSE IF Len(ws) = 1 THEN ws[1]
    ELSE ws[1] \o <<" ">> \o JoinWords(Tail(ws))

Texts == {JoinWords(ws) : ws \in UNION {[1..n -> Vocabulary] : n \in 0..MaxWords}}

\* the end of the run of word characters that starts at i (first index after it)
RECURSIVE WordEnd(_, _)
WordEnd(t, i) == IF i <= Len(t) /\ t[i] \in WordChars THEN WordEnd(t, i + 1) ELSE i

\* the end of the match of \w+(\.?\w+)* that starts at i
RECURSIVE TokenEnd(_, _)
TokenEnd(t, i) ==
    LET k == WordEnd(t, i)
    IN  IF k + 1 <= Len(t) /\ t[k] = "." /\ t[k + 1] \in WordChars
           THEN TokenEnd(t, k + 1)
           ELSE k

\* RegexTokenizer: the successive matches of the pattern
RECURSIVE RegexTokenizer(_, _)
RegexTokenizer(t, i) ==
    IF i > Len(t) THEN <<>>
    ELSE IF t[i] \notin WordChars THEN RegexTokenizer(t, i + 1)
    ELSE LET j == TokenEnd(t, i)
         IN  <<SubSeq(t, i, j - 1)>> \o RegexTokenizer(t, j)

\* LowercaseFilter
LowercaseFilter(tokens) == [k \in 1..Len(tokens) |-> [i \in 1..Len(tokens[k]) |-> Lower(tokens[k][i])]]

\* StopFilter(stoplist=STOP_WORDS, minsize=2)
StopFilter(tokens) ==
    SelectSeq(tokens, LAMBDA w : Len(w) >= StopMinSize /\ w \notin STOP_WORDS)

\* A length filter whose upper bound is off by one.
LengthFilterOffByOne(tokens, min, max) ==
    SelectSeq(tokens, LAMBDA w : min <= Len(w) /\ Len(w) <= max + 1)

\* LengthFilter.__call__
LengthFilter(tokens, min, max) ==
    SelectSeq(tokens, LAMBDA w : min <= Len(w) /\ Len(w) <= max)

\* custom_analyzer = StandardAnalyzer() | LengthFilter(min=2, max=39)
custom_analyzer(t) ==
    LengthFilter(StopFilter(LowercaseFilter(RegexTokenizer(t, 1))), LengthMin, LengthMax)

\* parse_query_into_terms
parse_query_into_terms(query_string) == custom_analyzer(query_string)

Range(f) == {f[i] : i \in DOMAIN f}

\* update_document(content=text): the terms the content field contributes
IndexText ==
    /\ stored = <<"none">>
    /\ stored' = <<"terms", Range(custom_analyzer(text))>>
    /\ UNCHANGED <<text, queried>>

\* parse_query_into_terms(text)
ParseQuery ==
    /\ queried = <<"none">>
    /\ queried' = <<"terms", parse_query_into_terms(text)>>
    /\ UNCHANGED <<text, stored>>

AnalyzerStart ==
    /\ text \in Texts
    /\ stored = <<"none">>
    /\ queried = <<"none">>

AnalyzerIdle ==
    /\ text = <<>>
    /\ stored = <<"none">>
    /\ queried = <<"none">>

AnalyzerNext == IndexText \/ ParseQuery

(***************************************************************************)
(* Shard extractor (docs_lake_initializer.py)                              *)
(***************************************************************************)

\* Bound of the model: the most sheets or pages an origin file has.
MaxPages == 2

\* Paths are sequences of components; an absolute path starts with "/".
IsAbsolute(path) == path # <<>> /\ path[1] = "/"

\* the process's working directory
Cwd == <<"/", "srv">>

\* input_dir (app_dir) as configured, and output_dir = app_dir / "__docs__"
InputDir == <<"docs", "root">>
OutputDir == InputDir \o <<DocLakeDir>>

\* Path.resolve()
Resolve(path) == IF IsAbsolute(path) THEN path ELSE Cwd \o path

\* Path.parents of an absolute path
Parents(path) == {SubSeq(path, 1, n) : n \in 1..(Len(path) - 1)}

\* valid_extensions and its families
ExcelExtensions == {".xlsx", ".xls", ".xlsm"}
WordExtensions == {".doc", ".docx", ".odt"}
PptExtensions == {".ppt", ".pptx"}
valid_extensions == ExcelExtensions \cup WordExtensions \cup {".pdf"} \cup PptExtensions

\* The files of the tree in the model: path relative to input_dir and suffix.
Workbook == [rel |-> <<"reports", "q1.xlsx">>, suffix |-> ".xlsx"]
Memo == [rel |-> <<"memo.docx">>, suffix |-> ".docx"]
OldPdf == [rel |-> <<DocLakeDir, "old.pdf">>, suffix |-> ".pdf"]
Notes == [rel |-> <<"notes.md">>, suffix |-> ".md"]
TreeFiles == {Workbook, Memo, OldPdf, Notes}

SheetNames == <<"A", "B", "C", "D">>

\* What befalls a file during the run: how many sheets or pages the decoder finds,
\* whether the decoder raises, and which of its shard writes fail.
Fates ==
    {f \in [pages : 0..MaxPages, decodeFails : BOOLEAN, writeFails : SUBSET (1..MaxPages)] :
        /\ f.writeFails \subseteq 1..f.pages
        /\ f.decodeFails => f.pages = 0}

\* str(file_id), as a sequence of digits
Digit(n) == <<"0", "1", "2", "3", "4", "5", "6", "7", "8", "9">>[n + 1]

RECURSIVE Str(_)
Str(n) == IF n < 10 THEN <<Digit(n)>> ELSE Str(n \div 10) \o <<Digit(n % 10)>>

\* txt_filename = f"{file_id}.txt", and str(output_file.relative_to(output_dir))
TxtFilename(id) == Str(id) \o <<".", "t", "x", "t">>

\* file_path of the loop: input_dir joined with the walked relative path
FilePath(o) == InputDir \o o.file.rel

\* convert_file: the sheets (name -> text) or pages the decoders return; a decoder
\* that raises returns nothing, a Word text without pages is one page
convert_file(o) ==
    IF o.file.suffix \notin valid_extensions \/ o.fate.decodeFails THEN <<>>
    ELSE IF o.file.suffix \in WordExtensions /\ o.fate.pages = 0 THEN <<1>>
    ELSE [k \in 1..o.fate.pages |-> k]

\* the label stored with a shard: "sheet" for Excel, "page" for the rest
Label(o, k) ==
    IF o.file.suffix \in ExcelExtensions
       THEN [sheet |-> SheetNames[k]]
       ELSE [page |-> k]

\* An entry that keeps the path as walked instead of resolving it.
MappingEntryUnresolved(o, k) ==
    [original_file |-> FilePath(o), label |-> Label(o, k)]

\* the value stored in id_to_file[str(file_id)] (lines 176-179, 195-204)
MappingEntry(o, k) ==
    [original_file |-> Resolve(FilePath(o)), label |-> Label(o, k)]

Put(f, key, value) == [x \in DOMAIN f \cup {key} |-> IF x = key THEN value ELSE f[x]]

\* one pass of the inner loop: write shard k of the file, record it in both tables
\* and advance file_id, or on a write error leave everything as it was
WriteShard(st, o, k) ==
    IF k \in o.fate.writeFails THEN st
    ELSE [file_id |-> st.file_id + 1,
          id_to_file |-> Put(st.id_to_file, Str(st.file_id), MappingEntry(o, k)),
          relative_path_to_id |->
              Put(st.relative_path_to_id, TxtFilename(st.file_id), Str(st.file_id)),
          files |-> Put(st.files, TxtFilename(st.file_id),
                        [origin |-> o.file, part |-> k])]

RECURSIVE WriteShards(_, _, _, _)
WriteShards(st, o, converted, k) ==
    IF k > Len(converted) THEN st
    ELSE WriteShards(WriteShard(st, o, converted[k]), o, converted, k + 1)

\* the body of the loop over input_dir.rglob("*") for one file (lines 159-211)
ConvertOne(st, o) ==
    IF Resolve(OutputDir) \in Parents(Resolve(FilePath(o))) THEN st
    ELSE IF o.file.suffix \notin valid_extensions THEN st
    ELSE WriteShards(st, o, convert_file(o), 1)

EmptyMap == [x \in {} |-> 0]

\* lines 146-148
FreshShardState ==
    [file_id |-> 1, id_to_file |-> EmptyMap, relative_path_to_id |-> EmptyMap,
     files |-> EmptyMap]

RECURSIVE ConvertFrom(_, _, _)
ConvertFrom(st, os, i) ==
    IF i > Len(os) THEN st ELSE ConvertFrom(ConvertOne(st, os[i]), os, i + 1)

\* the mapping convert_all_files returns for a sequence of files
convert_all_files(os) == ConvertFrom(FreshShardState, os, 1)

\* one iteration of the loop
ConvertNext ==
    /\ shPos <= Len(origins)
    /\ shState' = ConvertOne(shState, origins[shPos])
    /\ shPos' = shPos + 1
    /\ UNCHANGED <<origins, shReturned>>

\* the return of lines 220-223
ReturnMapping ==
    /\ shPos > Len(origins)
    /\ ~shReturned
    /\ shReturned' = TRUE
    /\ UNCHANGED <<origins, shPos, shState>>

Orders(S) ==
    {q \in [1..Cardinality(S) -> S] : \A i, j \in 1..Cardinality(S) : q[i] = q[j] => i = j}

ShardsStart ==
    /\ \E S \in SUBSET TreeFiles :
          \E order \in Orders(S) :
             \E fates \in [1..Cardinality(S) -> Fates] :
                origins = [i \in 1..Cardinality(S) |->
                              [file |-> order[i], fate |-> fates[i]]]
    /\ \A i \in 1..Len(origins) :
          origins[i].file \in {OldPdf, Notes} =>
              origins[i].fate = [pages |-> 1, decodeFails |-> FALSE, writeFails |-> {}]
    /\ shPos = 1
    /\ shState = FreshShardState
    /\ shReturned = FALSE

ShardsIdle ==
    /\ origins = <<>>
    /\ shPos = 1
    /\ shState = FreshShardState
    /\ shReturned = FALSE

ShardsNext == ConvertNext \/ ReturnMapping

(***************************************************************************)
(* /search (search_localFile_endpoint.py)                                  *)
(***************************************************************************)

\* Bound of the model: the most shard files the shard directory holds.
MaxShards == 2

\* A path is [parts, name]: the directories, as strings, and the file name, as a
\* sequence of characters.  get_app_dir() and get_docs_lake_dir():
AppDir == <<"/", "srv", "docs", "root">>
DocsLakeDir == AppDir \o <<DocLakeDir>>

\* Path.is_absolute()
PathIsAbsolute(path) == IsAbsolute(path.parts)

\* base / path
JoinPath(base, path) == [parts |-> base \o path.parts, name |-> path.name]

\* path.relative_to(base) succeeds
IsUnder(path, base) ==
    Len(path.parts) >= Len(base) /\ SubSeq(path.parts, 1, Len(base)) = base

\* path.relative_to(base)
RelativeTo(path, base) ==
    [parts |-> SubSeq(path.parts, Len(base) + 1, Len(path.parts)), name |-> path.name]

\* the index of the last "." of a name, 0 when there is none
RECURSIVE LastDot(_, _)
LastDot(name, i) ==
    IF i = 0 THEN 0 ELSE IF name[i] = "." THEN i ELSE LastDot(name, i - 1)

\* Path.stem
Stem(name) ==
    LET d == LastDot(name, Len(name))
    IN  IF d <= 1 THEN name ELSE SubSeq(name, 1, d - 1)

\* The key update_index stores for shard i: its path relative to app_dir.
ShardKey(i) == [parts |-> <<DocLakeDir>>, name |-> TxtFilename(i)]

\* The keys of the other index, and the origin files of the shards.
SourceKey == [parts |-> <<"src">>, name |-> <<"a", ".", "p", "y">>]
OriginPaths ==
    {[parts |-> AppDir \o <<"reports">>, name |-> <<"q", "1", ".", "x", "l", "s", "x">>],
     [parts |-> AppDir, name |-> <<"m", "e", "m", "o", ".", "p", "d", "f">>]}
MappingEntries ==
    {[original_file |-> o, label |-> l] :
        o \in OriginPaths, l \in {[page |-> 1], [sheet |-> "A"]}}

\* mapping = json.load(mapping.json), {} when the file is missing or unreadable
\* (lines 240-249)
LoadedIdToFile ==
    IF mappingJson.state = "ok" THEN mappingJson.id_to_file ELSE EmptyMap

\* the rewrite of one docs hit (lines 254-282)
NormalizeDocsHit(raw_path) ==
    LET file_path == IF PathIsAbsolute(raw_path) THEN raw_path
                     ELSE JoinPath(DocsLakeDir, raw_path)
        file_id == Stem(file_path.name)
    IN  IF ~IsUnder(file_path, DocsLakeDir)
           THEN [path |-> raw_path, label |-> <<>>]
        ELSE IF file_id \in DOMAIN LoadedIdToFile
           THEN [path |-> IF IsUnder(LoadedIdToFile[file_id].original_file, AppDir)
                             THEN RelativeTo(LoadedIdToFile[file_id].original_file, AppDir)
                             ELSE LoadedIdToFile[file_id].original_file,
                 label |-> LoadedIdToFile[file_id].label]
        ELSE [path |-> IF IsUnder(file_path, AppDir)
                          THEN RelativeTo(file_path, AppDir)
                          ELSE file_path,
              label |-> <<>>]

\* the rewrite of one hit of the other index (lines 283-291)
NormalizeOtherHit(raw_path) ==
    LET file_path == IF PathIsAbsolute(raw_path) THEN raw_path
                     ELSE JoinPath(AppDir, raw_path)
    IN  [path |-> IF IsUnder(file_path, AppDir)
                     THEN RelativeTo(file_path, AppDir)
                     ELSE file_path,
         label |-> <<>>]

\* GET /search?q&index_type: the hits of the chosen index, each rewritten
Search(index_type, hits) ==
    /\ hits # {}
    /\ hits \subseteq (IF index_type = "docs" THEN docsIx ELSE {SourceKey})
    /\ response' =
          [index_type |-> index_type,
           results |-> {[hit |-> h,
                         out |-> IF index_type = "docs" THEN NormalizeDocsHit(h)
                                 ELSE NormalizeOtherHit(h)] : h \in hits}]
    /\ UNCHANGED <<lakeShards, mappingJson, docsIx>>

NoMapping == [state |-> "missing", id_to_file |-> EmptyMap]

\* init() step 4, clear_docs_lake_dir: the .txt and .json files are unlinked
ClearDocsLake ==
    /\ lakeShards # {} \/ mappingJson.state # "missing"
    /\ lakeShards' = {}
    /\ mappingJson' = NoMapping
    /\ UNCHANGED <<docsIx, response>>

\* init() step 7, convert_all_files: shards 1..n are written
WriteLakeShards(n) ==
    /\ lakeShards = {}
    /\ mappingJson.state = "missing"
    /\ lakeShards' = 1..n
    /\ UNCHANGED <<mappingJson, docsIx, response>>

\* init() step 8, save_mapping: mapping.json is written, or the write fails and
\* only a message is printed
SaveMapping(table, ok) ==
    /\ lakeShards # {}
    /\ mappingJson.state = "missing"
    /\ DOMAIN table = {Str(i) : i \in lakeShards}
    /\ mappingJson' = IF ok THEN [state |-> "ok", id_to_file |-> table] ELSE NoMapping
    /\ UNCHANGED <<lakeShards, docsIx, response>>

\* mapping.json as a reader finds it while it is being written: not valid JSON
MappingUnreadable ==
    /\ mappingJson.state = "ok"
    /\ mappingJson' = [state |-> "unreadable", id_to_file |-> EmptyMap]
    /\ UNCHANGED <<lakeShards, docsIx, response>>

\* update_index on the docs partition: the index holds the shards on disk
UpdateDocsIndex ==
    /\ docsIx # {ShardKey(i) : i \in lakeShards}
    /\ docsIx' = {ShardKey(i) : i \in lakeShards}
    /\ UNCHANGED <<lakeShards, mappingJson, response>>

NoResponse == [index_type |-> "none", results |-> {}]

SearchStart ==
    /\ lakeShards = {}
    /\ mappingJson = NoMapping
    /\ docsIx = {}
    /\ response = NoResponse

SearchIdle == SearchStart

SearchNext ==
    \/ \E index_type \in {"docs", "other"} :
          \E hits \in SUBSET (docsIx \cup {SourceKey}) : Search(index_type, hits)
    \/ ClearDocsLake
    \/ \E n \in 1..MaxShards : WriteLakeShards(n)
    \/ \E n \in 1..MaxShards :
          \E table \in [{Str(i) : i \in 1..n} -> MappingEntries] :
             \E ok \in BOOLEAN : SaveMapping(table, ok)
    \/ MappingUnreadable
    \/ UpdateDocsIndex

(***************************************************************************)
(* Filename search (directory_search_utils.py)                             *)
(***************************************************************************)

\* Bound of the model: the largest search_max_results of config.json.
MaxResults == 2

\* str.lower() of a string
LowerStr(s) == [i \in 1..Len(s) |-> Lower(s[i])]

\* s.startswith(prefix), s.endswith(suffix), sub in s
StartsWith(s, prefix) == Len(s) >= Len(prefix) /\ SubSeq(s, 1, Len(prefix)) = prefix
EndsWith(s, suffix) ==
    Len(s) >= Len(suffix) /\ SubSeq(s, Len(s) - Len(suffix) + 1, Len(s)) = suffix
Contains(s, sub) == \E i \in 0..(Len(s) - Len(sub)) : SubSeq(s, i + 1, i + Len(sub)) = sub

\* s[:n]
Take(s, n) == SubSeq(s, 1, IF n < Len(s) THEN n ELSE Len(s))

\* The files the tree under app_dir may hold, and its folders.
AbPy == [dir |-> <<>>, name |-> <<"a", "b", ".", "p", "y">>]
SubAbxTxt == [dir |-> <<"s">>, name |-> <<"A", "b", "x", ".", "t", "x", "t">>]
WalkableFiles == {AbPy, SubAbxTxt}
Folders == {<<>>, <<"s">>}

\* os.path.basename(os.path.normpath(app_dir))
AppBaseName == <<"r", "o", "o", "t">>

\* os.path.relpath(os.path.join(root, file), root_dir)
RelPath(f) == IF f.dir = <<>> THEN f.name ELSE f.dir \o <<"/">> \o f.name

\* os.path.basename of a relative path
RECURSIVE LastSlash(_, _)
LastSlash(p, i) == IF i = 0 THEN 0 ELSE IF p[i] = "/" THEN i ELSE LastSlash(p, i - 1)

Basename(p) == SubSeq(p, LastSlash(p, Len(p)) + 1, Len(p))

\* os.path.splitext: the extension starts at the last dot, leading dots apart
splitext(name) ==
    LET d == LastDot(name, Len(name))
    IN  IF d = 0 \/ \A i \in 1..d : name[i] = "."
           THEN <<name, <<>>>>
           ELSE <<SubSeq(name, 1, d - 1), SubSeq(name, d, Len(name))>>

\* the keys build_search_index files a name under, in the order it appends them
ExactKeys(f) ==
    LET file_lower == LowerStr(f.name)
        parts == splitext(file_lower)
    IN  <<file_lower, parts[1]>> \o (IF parts[2] # <<>> THEN <<parts[2]>> ELSE <<>>)

\* exact_index[key] after the walk
RECURSIVE ExactPaths(_, _)
ExactPaths(walk, key) ==
    IF walk = <<>> THEN <<>>
    ELSE LET hits == SelectSeq(ExactKeys(walk[1]), LAMBDA k : k = key)
         IN  [i \in 1..Len(hits) |-> RelPath(walk[1])] \o ExactPaths(Tail(walk), key)

\* build_search_index over the files in the order os.walk yields them
build_search_index(walk) ==
    [state |-> "built",
     exact |-> [key \in UNION {Range(ExactKeys(walk[i])) : i \in 1..Len(walk)} |->
                   ExactPaths(walk, key)],
     files |-> [i \in 1..Len(walk) |-> <<RelPath(walk[i]), LowerStr(walk[i].name)>>]]

\* os.path.normpath over the folder arguments of the model
normpath(p) ==
    LET a == IF StartsWith(p, <<".", "/">>) THEN SubSeq(p, 3, Len(p)) ELSE p
    IN  IF Len(a) > 1 /\ a[Len(a)] = "/" THEN SubSeq(a, 1, Len(a) - 1) ELSE a

normalize_folder_relative_path(frp) ==
    IF frp = <<>> \/ frp = <<".", "/">> \/ frp = <<".">> THEN <<>>
    ELSE LET n == normpath(frp)
         IN  IF n = AppBaseName THEN <<>>
             ELSE IF StartsWith(n, AppBaseName \o <<"/">>)
                     THEN SubSeq(n, Len(AppBaseName) + 2, Len(n))
                     ELSE n

\* str.split(): the maximal runs of non-blank characters
RECURSIVE SplitFrom(_, _)
SplitFrom(q, word) ==
    IF q = <<>> THEN (IF word = <<>> THEN <<>> ELSE <<word>>)
    ELSE IF q[1] = " "
            THEN (IF word = <<>> THEN <<>> ELSE <<word>>) \o SplitFrom(Tail(q), <<>>)
            ELSE SplitFrom(Tail(q), Append(word, q[1]))

split(q) == SplitFrom(q, <<>>)

\* the folder and extension filters applied to a path
InScope(p, frp, extension) ==
    /\ frp = <<>> \/ StartsWith(p, frp)
    /\ extension = <<>> \/ EndsWith(LowerStr(p), LowerStr(extension))

\* the exact-match loop (lines 565-585); keywords holds the keywords still to do
RECURSIVE ExactMatches(_, _, _, _, _)
ExactMatches(idx, keywords, frp, extension, exact_matches) ==
    IF keywords = <<>> THEN exact_matches
    ELSE IF keywords[1] \notin DOMAIN idx.exact
       THEN ExactMatches(idx, Tail(keywords), frp, extension, exact_matches)
    ELSE LET filtered_paths ==
                 SelectSeq(idx.exact[keywords[1]], LAMBDA p : InScope(p, frp, extension))
             narrowed ==
                 IF exact_matches = <<>> THEN filtered_paths
                 ELSE SelectSeq(exact_matches, LAMBDA p : p \in Range(filtered_paths))
         IN  IF narrowed = <<>> THEN <<>>
             ELSE ExactMatches(idx, Tail(keywords), frp, extension, narrowed)

\* the partial-match loop (lines 595-608)
PartialMatches(idx, keywords, frp, extension, matches) ==
    LET hits == SelectSeq(idx.files,
                    LAMBDA e : /\ InScope(e[1], frp, extension)
                               /\ \A k \in Range(keywords) : Contains(e[2], k)
                               /\ e[1] \notin Range(matches))
    IN  [i \in 1..Len(hits) |-> hits[i][1]]

\* ord() of the characters of the model's paths
CodePoint(c) ==
    CASE c = "." -> 46 [] c = "/" -> 47 [] c = "A" -> 65 [] c = "a" -> 97
      [] c = "b" -> 98 [] c = "p" -> 112 [] c = "s" -> 115 [] c = "t" -> 116
      [] c = "x" -> 120 [] c = "y" -> 121

RECURSIVE StrLess(_, _)
StrLess(a, b) ==
    IF a = <<>> THEN b # <<>>
    ELSE IF b = <<>> THEN FALSE
    ELSE IF a[1] = b[1] THEN StrLess(Tail(a), Tail(b))
    ELSE CodePoint(a[1]) < CodePoint(b[1])

\* sorted(set(matches))
RECURSIVE Sorted(_)
Sorted(S) ==
    IF S = {} THEN <<>>
    ELSE LET first == CHOOSE x \in S : \A y \in S \ {x} : StrLess(x, y)
         IN  <<first>> \o Sorted(S \ {first})

\* the exact half of the OR suggestion (lines 636-646)
RECURSIVE OrExactMatches(_, _, _, _)
OrExactMatches(idx, keywords, frp, extension) ==
    IF keywords = <<>> THEN <<>>
    ELSE (IF keywords[1] \in DOMAIN idx.exact
             THEN SelectSeq(idx.exact[keywords[1]], LAMBDA p : InScope(p, frp, extension))
             ELSE <<>>)
         \o OrExactMatches(idx, Tail(keywords), frp, extension)

\* the partial half of the OR suggestion (lines 649-663)
OrPartialMatches(idx, keywords, frp, extension, or_matches) ==
    LET hits == SelectSeq(idx.files,
                    LAMBDA e : /\ InScope(e[1], frp, extension)
                               /\ \E k \in Range(keywords) : Contains(e[2], k)
                               /\ e[1] \notin Range(or_matches))
    IN  [i \in 1..Len(hits) |-> hits[i][1]]

Answer(status, keywords, listed, total, suggested) ==
    [status |-> status, keywords |-> keywords, listed |-> listed, total |-> total,
     suggested |-> suggested]

\* search_files, on the index idx: what the returned text lists
search_files(idx, query, folder_relative_path, extension_arg, max_results) ==
    LET frp == normalize_folder_relative_path(folder_relative_path)
        extension == IF extension_arg # <<>> /\ extension_arg[1] # "."
                        THEN <<".">> \o extension_arg ELSE extension_arg
        words == split(query)
        keywords == [i \in 1..Len(words) |-> LowerStr(words[i])]
        exact_matches == ExactMatches(idx, keywords, frp, extension, <<>>)
        matches ==
            IF Len(exact_matches) < max_results
               THEN exact_matches \o
                    Take(PartialMatches(idx, keywords, frp, extension, exact_matches),
                         max_results - Len(exact_matches))
               ELSE exact_matches
        all_unique_matches == Sorted(Range(matches))
        or_exact == OrExactMatches(idx, keywords, frp, extension)
        or_matches ==
            IF Len(or_exact) < max_results
               THEN or_exact \o OrPartialMatches(idx, keywords, frp, extension, or_exact)
               ELSE or_exact
    IN  IF frp \notin Folders THEN Answer("no folder", <<>>, <<>>, 0, <<>>)
        ELSE IF keywords = <<>> THEN Answer("no keywords", <<>>, <<>>, 0, <<>>)
        ELSE IF matches # <<>>
           THEN Answer("found", keywords, Take(all_unique_matches, max_results),
                       Len(all_unique_matches), <<>>)
        ELSE Answer("none found", keywords, <<>>, 0,
                    Take(Sorted(Range(or_matches)), max_results))

\* the keywords and the arguments of the model
Keywords == {<<"A", "B">>, <<"b">>, <<".", "p", "y">>, <<"n", "n">>}
Queries ==
    {<<>>, <<" ">>} \cup {k : k \in Keywords}
        \cup {JoinWords(<<k1, k2>>) : k1, k2 \in Keywords}
FolderArguments == {<<>>, <<".", "/", "s">>, <<"r", "o", "o", "t">>, <<"t">>}
ExtensionArguments == {<<>>, <<"p", "y">>, <<".", "T", "X", "T">>}

NoIndex == [state |-> "none", exact |-> EmptyMap, files |-> <<>>]
NoAnswer == Answer("none", <<>>, <<>>, 0, <<>>)

\* refresh_search_index: the index is rebuilt from the tree as os.walk yields it
RefreshSearchIndex(walk) ==
    /\ walk \in Orders(tree)
    /\ file_index' = build_search_index(walk)
    /\ file_index_needs_update' = FALSE
    /\ UNCHANGED <<tree, searched>>

\* a call of search_files: the index is built first if need be (lines 540-541)
SearchFiles(query, folder_relative_path, extension, max_results, walk) ==
    /\ LET idx == IF file_index.state = "none" \/ file_index_needs_update
                     THEN build_search_index(walk) ELSE file_index
       IN  /\ file_index' = idx
           /\ searched' = search_files(idx, query, folder_relative_path, extension,
                                       max_results)
    /\ file_index_needs_update' = FALSE
    /\ UNCHANGED tree

\* the tree under app_dir changes
AddFile(f) ==
    /\ f \notin tree
    /\ tree' = tree \cup {f}
    /\ UNCHANGED <<file_index, file_index_needs_update, searched>>

DeleteFile(f) ==
    /\ f \in tree
    /\ tree' = tree \ {f}
    /\ UNCHANGED <<file_index, file_index_needs_update, searched>>

FilesStart ==
    /\ tree = {}
    /\ file_index = NoIndex
    /\ file_index_needs_update = TRUE
    /\ searched = NoAnswer

FilesIdle == FilesStart

FilesNext ==
    \/ \E walk \in Orders(tree) : RefreshSearchIndex(walk)
    \/ \E query \in Queries, folder_relative_path \in FolderArguments,
          extension \in ExtensionArguments, max_results \in 1..MaxResults,
          walk \in (IF file_index.state = "none" \/ file_index_needs_update
                       THEN Orders(tree) ELSE {<<>>}) :
             SearchFiles(query, folder_relative_path, extension, max_results, walk)
    \/ \E f \in WalkableFiles : AddFile(f)
    \/ \E f \in WalkableFiles : DeleteFile(f)

(***************************************************************************)
(* Code analyzer (code_analyze_tools.py)                                   *)
(***************************************************************************)

\* A name (of a file, a directory or a module) is a sequence of atoms: the dot
\* is an atom of its own and no other atom holds one.  A path is the sequence
\* of the names from the root of the file system.
DotPy == <<".", "py">>
InitPy == <<"__init__">> \o DotPy

\* The project directory, its package directory and the files they may hold.
ProjectDir == <<<<"proj">>>>
PkgDir == Append(ProjectDir, <<"p">>)
TopA == Append(ProjectDir, <<"a">> \o DotPy)
PkgInit == Append(PkgDir, InitPy)
PkgM == Append(PkgDir, <<"m">> \o DotPy)
PkgA == Append(PkgDir, <<"a">> \o DotPy)
Directories == {<<>>, ProjectDir, PkgDir}
ModulePaths == {TopA, PkgInit, PkgM, PkgA}

\* The statements EnhancedCodeVisitor records: import m, from m import x (with
\* its level), and a call m.f().
PlainImport(module) ==
    [kind |-> "import", module |-> module, names |-> <<>>, level |-> 0]
FromImport(module, names, level) ==
    [kind |-> "from", module |-> module, names |-> names, level |-> level]
ModuleCall(module) ==
    [kind |-> "call", module |-> module, names |-> <<>>, level |-> 0]

Statements ==
    {PlainImport(<<"a">>), PlainImport(<<"p", ".", "m">>), PlainImport(<<"z">>),
     FromImport(<<>>, <<<<"a">>>>, 1), FromImport(<<"m">>, <<<<"f">>>>, 1),
     FromImport(<<"a">>, <<<<"f">>>>, 2), FromImport(<<"p">>, <<<<"m">>>>, 0),
     ModuleCall(<<"a">>)}

\* The texts a file may hold: one ast.parse rejects, an empty one, one
\* statement, or an import and a call of the same module.
Broken == [parses |-> FALSE, statements |-> <<>>]
Blank == [parses |-> TRUE, statements |-> <<>>]
Sources ==
    {Broken, Blank}
        \cup {[parses |-> TRUE, statements |-> <<st>>] : st \in Statements}
        \cup {[parses |-> TRUE,
               statements |-> <<PlainImport(<<"a">>), ModuleCall(<<"a">>)>>]}
SourcesOf(path) == IF path = PkgInit THEN {Blank} ELSE Sources

\* os.path.isdir, os.path.isfile, os.path.exists, os.path.dirname, os.path.join
isdir(path) == path \in Directories \cup layout.dirs
isfile(path) == path \in DOMAIN project \/ path \in layout.files
exists(path) == isdir(path) \/ isfile(path)
dirname(path) == IF path = <<>> THEN <<>> ELSE SubSeq(path, 1, Len(path) - 1)
join(dir, name) == IF name = <<>> THEN dir ELSE Append(dir, name)

\* ".".join(parts)
RECURSIVE JoinDots(_)
JoinDots(parts) ==
    IF parts = <<>> THEN <<>>
    ELSE IF Len(parts) = 1 THEN parts[1]
    ELSE parts[1] \o <<".">> \o JoinDots(Tail(parts))

\* name.split('.')
RECURSIVE SplitDotsFrom(_, _)
SplitDotsFrom(name, part) ==
    IF name = <<>> THEN <<part>>
    ELSE IF name[1] = "." THEN <<part>> \o SplitDotsFrom(Tail(name), <<>>)
    ELSE SplitDotsFrom(Tail(name), Append(part, name[1]))

SplitDots(name) == SplitDotsFrom(name, <<>>)

\* a loop over dir_parts that never empties package_parts
RECURSIVE PackagePartsKept(_, _, _)
PackagePartsKept(dir_parts, current_dir, package_parts) ==
    IF dir_parts = <<>> THEN package_parts
    ELSE LET next_dir == join(current_dir, dir_parts[1])
         IN  PackagePartsKept(Tail(dir_parts), next_dir,
                              IF exists(join(next_dir, InitPy))
                                 THEN Append(package_parts, dir_parts[1])
                                 ELSE package_parts)

\* the loop of determine_module_name over dir_parts (lines 98-103)
RECURSIVE PackageParts(_, _, _)
PackageParts(dir_parts, current_dir, package_parts) ==
    IF dir_parts = <<>> THEN package_parts
    ELSE LET next_dir == join(current_dir, dir_parts[1])
         IN  PackageParts(Tail(dir_parts), next_dir,
                          IF exists(join(next_dir, InitPy))
                             THEN Append(package_parts, dir_parts[1])
                             ELSE <<>>)

determine_module_name(file_path, base_dir) ==
    LET parts == SubSeq(file_path, Len(base_dir) + 1, Len(file_path))
        filename == parts[Len(parts)]
        file_base == IF EndsWith(filename, DotPy)
                        THEN SubSeq(filename, 1, Len(filename) - 2)
                        ELSE filename
        package_parts == PackageParts(SubSeq(parts, 1, Len(parts) - 1), base_dir, <<>>)
    IN  IF file_base = <<"__init__">> THEN JoinDots(package_parts)
        ELSE JoinDots(Append(package_parts, file_base))

Found(path, type) == [found |-> TRUE, path |-> path, type |-> type]
NotFound == [found |-> FALSE, path |-> <<>>, type |-> "none"]

\* a directory found as a package: its __init__.py when it has one
PackageOrNamespace(dir) ==
    IF exists(join(dir, InitPy)) THEN Found(join(dir, InitPy), "directory")
    ELSE Found(dir, "namespace")

\* the loop of resolve_dotted_import over parts[1:] (lines 141-169); k is the
\* position of the part at hand
RECURSIVE DottedWalk(_, _, _)
DottedWalk(parts, k, current_path) ==
    IF k > Len(parts) THEN NotFound
    ELSE IF k = Len(parts)
       THEN IF exists(join(current_path, parts[k] \o DotPy))
               THEN Found(join(current_path, parts[k] \o DotPy), "file")
            ELSE IF isdir(join(current_path, parts[k]))
               THEN PackageOrNamespace(join(current_path, parts[k]))
            ELSE NotFound
    ELSE IF isdir(join(current_path, parts[k]))
       THEN DottedWalk(parts, k + 1, join(current_path, parts[k]))
    ELSE NotFound

resolve_dotted_import(import_path, current_file_path) ==
    LET current_dir == dirname(current_file_path)
        parts == SplitDots(import_path)
        first_part_dir == join(current_dir, parts[1])
    IN  IF ~isdir(first_part_dir)
           THEN IF isfile(join(current_dir, parts[1] \o DotPy)) /\ Len(parts) = 1
                   THEN Found(join(current_dir, parts[1] \o DotPy), "file")
                   ELSE NotFound
        ELSE IF Len(parts) = 1 THEN PackageOrNamespace(first_part_dir)
        ELSE DottedWalk(parts, 2, first_part_dir)

\* parent_dir after level - 1 steps up (lines 211-215)
RECURSIVE Ancestor(_, _)
Ancestor(dir, steps) == IF steps <= 0 THEN dir ELSE Ancestor(dirname(dir), steps - 1)

\* the loop of resolve_imported_file_path over parts, level > 0 (lines 223-242)
RECURSIVE RelativeWalk(_, _, _)
RelativeWalk(parts, k, resolved_path) ==
    IF k > Len(parts) THEN NotFound
    ELSE IF k = Len(parts) /\ exists(join(resolved_path, parts[k] \o DotPy))
       THEN Found(join(resolved_path, parts[k] \o DotPy), "file")
    ELSE IF ~isdir(join(resolved_path, parts[k])) THEN NotFound
    ELSE IF k = Len(parts) THEN PackageOrNamespace(join(resolved_path, parts[k]))
    ELSE RelativeWalk(parts, k + 1, join(resolved_path, parts[k]))

resolve_imported_file_path(module_name, current_file, level) ==
    LET current_dir == dirname(current_file)
        candidate == join(current_dir, module_name \o DotPy)
        candidate_dir == join(current_dir, module_name)
        parent_dir == dirname(current_dir)
        parent_candidate == join(parent_dir, module_name \o DotPy)
        parent_pkg_dir == join(parent_dir, module_name)
        base == Ancestor(current_dir, level - 1)
    IN  IF "." \in Range(module_name) /\ level = 0
           THEN resolve_dotted_import(module_name, current_file)
        ELSE IF level = 0
           THEN IF exists(candidate) THEN Found(candidate, "file")
                ELSE IF isdir(candidate_dir) THEN PackageOrNamespace(candidate_dir)
                ELSE IF exists(parent_candidate) THEN Found(parent_candidate, "file")
                ELSE IF isdir(parent_pkg_dir) /\ exists(join(parent_pkg_dir, InitPy))
                   THEN Found(join(parent_pkg_dir, InitPy), "directory")
                ELSE NotFound
        ELSE IF module_name = <<>> THEN PackageOrNamespace(base)
        ELSE RelativeWalk(SplitDots(module_name), 1, base)

\* what EnhancedCodeVisitor gathers from a parsed text
StatementsOfKind(src, kind) == SelectSeq(src.statements, LAMBDA st : st.kind = kind)

\* the entry of a parsed file (lines 261-269)
EntryOf(file_path) ==
    [module |-> determine_module_name(file_path, ProjectDir),
     file_path |-> file_path,
     imports |-> StatementsOfKind(project[file_path], "import"),
     import_froms |-> StatementsOfKind(project[file_path], "from"),
     calls |-> StatementsOfKind(project[file_path], "call")]

\* the entries in the order the walk parses them (lines 250-275)
ParsedEntries(walk) ==
    LET parsed == SelectSeq(walk, LAMBDA f : EndsWith(f[Len(f)], DotPy) /\ project[f].parses)
    IN  [i \in 1..Len(parsed) |-> EntryOf(parsed[i])]

\* the entries as analysis_results.items() yields them: module by module, in
\* the order the modules were first seen
RECURSIVE GroupedByModule(_)
GroupedByModule(entries) ==
    IF entries = <<>> THEN <<>>
    ELSE SelectSeq(entries, LAMBDA e : e.module = entries[1].module)
         \o GroupedByModule(SelectSeq(entries, LAMBDA e : e.module # entries[1].module))

\* file_to_module (lines 277-280)
FileToModule(entries) ==
    [f \in {entries[i].file_path : i \in 1..Len(entries)} |->
        (CHOOSE e \in Range(entries) : e.file_path = f).module]

ModulesOf(entries) == {entries[i].module : i \in 1..Len(entries)}

\* the module a resolved path binds to, if the path is a parsed file
BoundTo(result, entries) ==
    IF result.path \in DOMAIN FileToModule(entries)
       THEN <<FileToModule(entries)[result.path]>>
       ELSE <<>>

\* the binding of a plain import (lines 284-315)
ImportTarget(imp, current_file_path, entries) ==
    IF "." \in Range(imp.module)
       THEN LET dotted_result == resolve_dotted_import(imp.module, current_file_path)
            IN  IF dotted_result.found THEN BoundTo(dotted_result, entries) ELSE <<>>
    ELSE LET resolved_path == resolve_imported_file_path(imp.module, current_file_path, 0)
         IN  IF resolved_path.found THEN BoundTo(resolved_path, entries)
             ELSE IF imp.module \in ModulesOf(entries) THEN <<imp.module>>
             ELSE <<>>

\* a binder that leaves relative from-imports unbound
FromImportTargetAbsoluteOnly(imp, current_file_path, entries) ==
    IF imp.level > 0 THEN <<>>
    ELSE ImportTarget(imp, current_file_path, entries)

\* the binding of a from-import (lines 316-348)
FromImportTarget(imp, current_file_path, entries) ==
    IF imp.level = 0 /\ "." \in Range(imp.module)
       THEN LET dotted_result == resolve_dotted_import(imp.module, current_file_path)
            IN  IF dotted_result.found THEN BoundTo(dotted_result, entries) ELSE <<>>
    ELSE LET resolved_path ==
                 resolve_imported_file_path(imp.module, current_file_path, imp.level)
         IN  IF resolved_path.found THEN BoundTo(resolved_path, entries)
             ELSE IF imp.module \in ModulesOf(entries) THEN <<imp.module>>
             ELSE <<>>

\* the binding of a qualified call (lines 349-357)
CallTarget(call, entries) ==
    IF call.module \in ModulesOf(entries) THEN <<call.module>> ELSE <<>>

RECURSIVE Flatten(_)
Flatten(seqs) == IF seqs = <<>> THEN <<>> ELSE seqs[1] \o Flatten(Tail(seqs))

Reference(target, source_module, type) ==
    [target |-> target, ref |-> [module |-> source_module, type |-> type]]

\* the references one source entry appends, in the order it appends them
ReferencesFrom(source_entry, entries) ==
    LET to(targets, type) ==
            [i \in 1..Len(targets) |-> Reference(targets[i], source_entry.module, type)]
    IN  Flatten([i \in 1..Len(source_entry.imports) |->
                    to(ImportTarget(source_entry.imports[i], source_entry.file_path,
                                    entries), "import")])
        \o Flatten([i \in 1..Len(source_entry.import_froms) |->
                    to(FromImportTarget(source_entry.import_froms[i],
                                        source_entry.file_path, entries), "import")])
        \o Flatten([i \in 1..Len(source_entry.calls) |->
                    to(CallTarget(source_entry.calls[i], entries), "call")])

\* key = f"{ref['module']}:{ref['type']}"
RefKey(ref) == ref.module \o <<":", ref.type>>

\* a removal that removes nothing
UniqueRefsKeepAll(refs) == refs

\* the removal of repeated references (lines 358-366): of the references with
\* one key the first stays
RECURSIVE UniqueRefs(_)
UniqueRefs(refs) ==
    IF refs = <<>> THEN <<>>
    ELSE LET rest == UniqueRefs(SubSeq(refs, 1, Len(refs) - 1))
         IN  IF RefKey(refs[Len(refs)]) \in {RefKey(rest[i]) : i \in 1..Len(rest)}
                THEN rest
                ELSE Append(rest, refs[Len(refs)])

\* analyze_code_with_enhancements over the files as os.walk yields them
analyze_code_with_enhancements(walk) ==
    LET entries == GroupedByModule(ParsedEntries(walk))
        appended == Flatten([i \in 1..Len(entries) |-> ReferencesFrom(entries[i], entries)])
        referenced_by(e) ==
            LET mine == SelectSeq(appended, LAMBDA r : r.target = e.module)
            IN  UniqueRefs([i \in 1..Len(mine) |-> mine[i].ref])
    IN  [i \in 1..Len(entries) |->
            [module |-> entries[i].module,
             file_path |-> entries[i].file_path,
             imports |-> entries[i].imports,
             import_froms |-> entries[i].import_froms,
             calls |-> entries[i].calls,
             referenced_by |-> referenced_by(entries[i])]]

\* os.walk is top-down: the files of a directory come before those below it
WalkOrders ==
    {w \in Orders(DOMAIN project) :
        \A i, j \in 1..Len(w) : i < j => Len(w[i]) <= Len(w[j])}

\* G.has_edge(u, v)
has_edge(g, u, v) == <<u, v>> \in DOMAIN g.edges

\* G.add_edge(u, v, type=..., imported_file_path=...) on a DiGraph, which holds
\* one edge for an ordered pair of nodes
add_edge(g, u, v, type, imported_file_path) ==
    [state |-> g.state,
     nodes |-> g.nodes \cup {u, v},
     edges |-> Put(g.edges, <<u, v>>,
                   [type |-> type, imported_file_path |-> imported_file_path])]

\* the edges of the incoming references (lines 380-386)
RECURSIVE ReferenceEdges(_, _, _, _)
ReferenceEdges(g, entries, i, k) ==
    IF i > Len(entries) THEN g
    ELSE IF k > Len(entries[i].referenced_by) THEN ReferenceEdges(g, entries, i + 1, 1)
    ELSE LET ref == entries[i].referenced_by[k]
         IN  ReferenceEdges(IF has_edge(g, ref.module, entries[i].module) THEN g
                            ELSE add_edge(g, ref.module, entries[i].module, ref.type,
                                          entries[i].file_path),
                            entries, i, k + 1)

\* the edge one plain import adds (lines 390-422)
ImportEdge(g, data, imp, entries) ==
    LET module == data.module
        result == resolve_dotted_import(imp.module, data.file_path)
        local_path == resolve_imported_file_path(imp.module, data.file_path, 0)
        bound(found) ==
            IF found.path \in DOMAIN FileToModule(entries)
                  /\ ~has_edge(g, module, FileToModule(entries)[found.path])
               THEN add_edge(g, module, FileToModule(entries)[found.path], "import",
                             found.path)
               ELSE g
    IN  IF has_edge(g, module, imp.module) THEN g
        ELSE IF "." \in Range(imp.module)
           THEN IF result.found THEN bound(result) ELSE g
        ELSE IF local_path.found THEN bound(local_path)
        ELSE IF imp.module \in ModulesOf(entries)
           THEN add_edge(g, module, imp.module, "import",
                         SelectSeq(entries, LAMBDA e : e.module = imp.module)[1].file_path)
        ELSE g

\* the edges of the plain imports (lines 387-423)
RECURSIVE ImportEdges(_, _, _, _)
ImportEdges(g, entries, i, k) ==
    IF i > Len(entries) THEN g
    ELSE IF k > Len(entries[i].imports) THEN ImportEdges(g, entries, i + 1, 1)
    ELSE ImportEdges(ImportEdge(g, entries[i], entries[i].imports[k], entries),
                     entries, i, k + 1)

\* build_enhanced_graph(analysis_results)
build_enhanced_graph(entries) ==
    LET nodes == [state |-> "built", nodes |-> ModulesOf(entries), edges |-> EmptyMap]
    IN  ImportEdges(ReferenceEdges(nodes, entries, 1, 1), entries, 1, 1)

NoAnalysis == [state |-> "none", entries |-> <<>>]
NoGraph == [state |-> "none", nodes |-> {}, edges |-> EmptyMap]

\* a run of analyze_code_with_enhancements(project_dir)
Analyze(walk) ==
    /\ walk \in WalkOrders
    /\ analysis' = [state |-> "done", entries |-> analyze_code_with_enhancements(walk)]
    /\ graph' = NoGraph
    /\ UNCHANGED project

\* build_enhanced_graph on the results of the run
BuildGraph ==
    /\ analysis.state = "done"
    /\ graph.state = "none"
    /\ graph' = build_enhanced_graph(analysis.entries)
    /\ UNCHANGED <<project, analysis>>

\* the project is edited: a file is written, or removed
WriteModule(path, src) ==
    /\ IF path \in DOMAIN project THEN project[path] # src ELSE TRUE
    /\ project' = Put(project, path, src)
    /\ analysis' = NoAnalysis
    /\ graph' = NoGraph

RemoveModule(path) ==
    /\ path \in DOMAIN project
    /\ project' = [f \in DOMAIN project \ {path} |-> project[f]]
    /\ analysis' = NoAnalysis
    /\ graph' = NoGraph

BindStart ==
    /\ project = EmptyMap
    /\ analysis = NoAnalysis
    /\ graph = NoGraph

BindIdle == BindStart

BindNext ==
    \/ \E walk \in WalkOrders : Analyze(walk)
    \/ BuildGraph
    \/ \E path \in ModulePaths : \E src \in SourcesOf(path) : WriteModule(path, src)
    \/ \E path \in ModulePaths : RemoveModule(path)

(***************************************************************************)
(* /file (search_localFile_endpoint.py)                                    *)
(***************************************************************************)

\* Here a path is the sequence of its components, the file name last.

\* the collapse of "." and ".." that Path.resolve() performs
RECURSIVE CollapseDots(_, _)
CollapseDots(path, done) ==
    IF path = <<>> THEN done
    ELSE IF path[1] = "." THEN CollapseDots(Tail(path), done)
    ELSE IF path[1] = ".."
       THEN CollapseDots(Tail(path),
                         IF Len(done) > 1 THEN SubSeq(done, 1, Len(done) - 1) ELSE done)
    ELSE CollapseDots(Tail(path), Append(done, path[1]))

\* Path.resolve(): absolute, without "." and ".." (the tree has no symlinks)
ResolvePath(path) == CollapseDots(Resolve(path), <<>>)

\* base / path
PathJoin(base, path) == IF IsAbsolute(path) THEN path ELSE base \o path

\* path.relative_to(base) does not raise ValueError
Within(path, base) == Len(path) >= Len(base) /\ SubSeq(path, 1, Len(base)) = base

\* app_dir as config.json may hold it: normalised by update_config, or relative
\* to the working directory as written by hand
ConfiguredAppDirs == {AppDir, InputDir}

\* get_app_dir() and get_docs_lake_dir() of the endpoint
get_app_dir == appDirSetting
get_docs_lake_dir == get_app_dir \o <<DocLakeDir>>

\* The files that may exist, and the directories that do.
PlainFile == AppDir \o <<"a.txt">>
OfficeFile == AppDir \o <<"report.pdf">>
ShardOne == AppDir \o <<DocLakeDir, "1.txt">>
ShardTwo == AppDir \o <<DocLakeDir, "2.txt">>
MappingFile == AppDir \o <<DocLakeDir, "mapping.json">>
ShardThree == AppDir \o <<DocLakeDir, "3.txt">>
LegacyFile == AppDir \o <<"book.xls">>
OutsideFile == <<"/", "srv", "docs", "outside.txt">>
WebFileCandidates ==
    {PlainFile, OfficeFile, LegacyFile, ShardOne, ShardTwo, ShardThree, MappingFile,
     OutsideFile}
WebDirectories == {SubSeq(AppDir, 1, n) : n \in 1..Len(AppDir)} \cup {AppDir \o <<DocLakeDir>>}

\* Path.exists() of a path given as the process would open it
PathExists(path) == ResolvePath(path) \in webFiles \cup WebDirectories

\* Path.suffix.lower() over the names of the model
SuffixOf(path) ==
    CASE path[Len(path)] \in {"a.txt", "1.txt", "2.txt", "3.txt", "outside.txt"} -> ".txt"
      [] path[Len(path)] = "report.pdf" -> ".pdf"
      [] path[Len(path)] = "book.xls" -> ".xls"
      [] path[Len(path)] = "mapping.json" -> ".json"
      [] OTHER -> ""

allowed_extensions == {".xlsx", ".pdf", ".doc", ".docx", ".ppt", ".pptx"}

\* mapping.json as the extractor wrote it: the .pdf has two shards and the
\* workbook one sheet; the ids in the order of the file
IdToFileOnDisk ==
    [id \in {1, 2, 3} |->
        IF id = 3 THEN [original_file |-> LegacyFile, page |-> 1]
        ELSE [original_file |-> OfficeFile, page |-> id]]
IdsOfMapping == <<1, 2, 3>>

\* matched_entries.sort(key=lambda x: x[0]): line 352
RECURSIVE InsertById(_, _)
InsertById(id, sorted) ==
    IF sorted = <<>> THEN <<id>>
    ELSE IF id < Head(sorted) THEN <<id>> \o sorted
    ELSE <<Head(sorted)>> \o InsertById(id, Tail(sorted))

RECURSIVE SortedById(_)
SortedById(entries) ==
    IF entries = <<>> THEN <<>>
    ELSE InsertById(Head(entries), SortedById(Tail(entries)))

\* matched_entries, sorted by the numeric id (lines 345-353)
matched_entries(full_path) ==
    IF PathExists(get_docs_lake_dir \o <<"mapping.json">>)
       THEN SortedById(SelectSeq(IdsOfMapping,
                LAMBDA id : ResolvePath(IdToFileOnDisk[id].original_file) = full_path))
       ELSE <<>>

\* f.read() of a file opened as UTF-8 text does not raise: the bytes of an
\* office file are not UTF-8
DecodesAsText(full_path) == SuffixOf(full_path) \notin {".pdf", ".xls"}

Reply(path, status, read) ==
    [state |-> "answered", path |-> path, status |-> status, read |-> read]

\* the shard files /file reads for an office file, or the converted text file
\* beside the shards (lines 334-364)
OfficeReads(full_path) ==
    LET shards == [i \in 1..Len(matched_entries(full_path)) |->
                      get_docs_lake_dir \o <<Str(matched_entries(full_path)[i])[1] \o ".txt">>]
    IN  SelectSeq(shards, LAMBDA txt_file : PathExists(txt_file))

\* GET /file?path=...
get_file_contents(file_path_param) ==
    LET abs_app_dir == ResolvePath(get_app_dir)
        full_path == ResolvePath(PathJoin(abs_app_dir, file_path_param))
    IN  IF file_path_param = <<>> THEN Reply(file_path_param, 400, <<>>)
        ELSE IF ~Within(full_path, abs_app_dir) THEN Reply(file_path_param, 403, <<>>)
        ELSE IF Within(full_path, get_docs_lake_dir) THEN Reply(file_path_param, 403, <<>>)
        ELSE IF ~PathExists(full_path) THEN Reply(file_path_param, 404, <<>>)
        ELSE IF SuffixOf(full_path) \in allowed_extensions
           THEN Reply(file_path_param, 200, OfficeReads(full_path))
        ELSE IF full_path \in WebDirectories THEN Reply(file_path_param, 500, <<>>)
        ELSE IF ~DecodesAsText(full_path) THEN Reply(file_path_param, 500, <<>>)
        ELSE Reply(file_path_param, 200, <<full_path>>)

\* the path parameters of the model
PathParameters ==
    {<<>>, <<"a.txt">>, <<"report.pdf">>, <<"book.xls">>, <<"missing.txt">>, <<"..", "outside.txt">>,
     <<"/", "srv", "docs", "outside.txt">>, <<DocLakeDir, "1.txt">>,
     <<DocLakeDir, "mapping.json">>, <<DocLakeDir>>, <<DocLakeDir, "..", "a.txt">>,
     <<".", DocLakeDir, "2.txt">>}

NotServed == [state |-> "none", path |-> <<>>, status |-> 0, read |-> <<>>]

GetFileContents(file_path_param) ==
    /\ served' = get_file_contents(file_path_param)
    /\ UNCHANGED <<appDirSetting, webFiles>>

\* POST /config with app_dir: update_config stores normalize_path(app_dir)
UpdateConfigAppDir(new_app_dir) ==
    /\ appDirSetting # ResolvePath(new_app_dir)
    /\ appDirSetting' = ResolvePath(new_app_dir)
    /\ served' = NotServed
    /\ UNCHANGED webFiles

\* a file comes into being, or is removed
PutWebFile(f) ==
    /\ f \notin webFiles
    /\ webFiles' = webFiles \cup {f}
    /\ served' = NotServed
    /\ UNCHANGED appDirSetting

DropWebFile(f) ==
    /\ f \in webFiles
    /\ webFiles' = webFiles \ {f}
    /\ served' = NotServed
    /\ UNCHANGED appDirSetting

ServeStart ==
    /\ appDirSetting \in ConfiguredAppDirs
    /\ webFiles = {}
    /\ served = NotServed

ServeIdle ==
    /\ appDirSetting = AppDir
    /\ webFiles = {}
    /\ served = NotServed

ServeNext ==
    \/ \E file_path_param \in PathParameters : GetFileContents(file_path_param)
    \/ \E new_app_dir \in ConfiguredAppDirs : UpdateConfigAppDir(new_app_dir)
    \/ \E f \in WebFileCandidates : PutWebFile(f)
    \/ \E f \in WebFileCandidates : DropWebFile(f)

(***************************************************************************)
(* Folder tree display (directory_search_utils.py)                         *)
(***************************************************************************)

\* A directory is [folder, files, children]: its name, the number of its own files
\* per lowercase extension, and its subdirectories in os.listdir order.
FolderExtensions == {".py", ".txt"}

NoFiles == EmptyMap
OnePy == [e \in {".py"} |-> 1]
PyAndTxt == [e \in FolderExtensions |-> 1]
OwnFiles == {NoFiles, OnePy, PyAndTxt}

Dir(folder, files, children) ==
    [folder |-> folder, files |-> files, children |-> children]

DeepDirs == {Dir("c", f, <<>>) : f \in OwnFiles}
MiddleDirs ==
    {Dir("b", f, <<>>) : f \in OwnFiles}
        \cup {Dir("b", f, <<c>>) : f \in OwnFiles, c \in DeepDirs}
UpperDirs ==
    {Dir("a", f, <<>>) : f \in OwnFiles}
        \cup {Dir("a", f, <<b>>) : f \in OwnFiles, b \in MiddleDirs}
SideDirs == {Dir("d", f, <<>>) : f \in OwnFiles}
RootDirs ==
    {Dir("root", f, <<>>) : f \in OwnFiles}
        \cup {Dir("root", f, <<a>>) : f \in OwnFiles, a \in UpperDirs}
        \cup {Dir("root", f, <<a, d>>) : f \in OwnFiles, a \in UpperDirs, d \in SideDirs}

\* the default of the max_depth parameter of build_folder_tree_json
DefaultMaxDepth == 100

\* the pointwise sum of two extension tables (lines 150-152)
AddCounts(f, g) ==
    [e \in DOMAIN f \cup DOMAIN g |->
        (IF e \in DOMAIN f THEN f[e] ELSE 0) + (IF e \in DOMAIN g THEN g[e] ELSE 0)]

\* build_folder_tree_json, all the files being text with short extensions: a node
\* is [folder, extensions, children], extensions counting the files of the subtree
RECURSIVE build_folder_tree_json(_, _, _)
RECURSIVE BuildChildren(_, _, _, _, _)
BuildChildren(node, dirs, k, max_depth, current_depth) ==
    IF k > Len(dirs) THEN node
    ELSE LET child_tree == build_folder_tree_json(dirs[k], max_depth, current_depth + 1)
         IN  BuildChildren(
                 [node EXCEPT !.children = Append(@, child_tree),
                              !.extensions = AddCounts(@, child_tree.extensions)],
                 dirs, k + 1, max_depth, current_depth)

build_folder_tree_json(directory, max_depth, current_depth) ==
    IF current_depth > max_depth
    THEN [folder |-> directory.folder, extensions |-> EmptyMap, children |-> <<>>]
    ELSE BuildChildren(
             [folder |-> directory.folder, extensions |-> directory.files,
              children |-> <<>>],
             directory.children, 1, max_depth, current_depth)

\* the directory at base_path below the root directory, a sequence of folder names
NoDir == [folder |-> "", files |-> EmptyMap, children |-> <<>>]

RECURSIVE DirAt(_, _)
DirAt(directory, path) ==
    IF path = <<>> THEN directory
    ELSE LET hits == {k \in DOMAIN directory.children :
                          directory.children[k].folder = Head(path)}
         IN  IF hits = {} THEN NoDir
             ELSE DirAt(directory.children[CHOOSE k \in hits : TRUE], Tail(path))

\* one output line of the tree: a folder line "  " * indent + "name (count)" or a
\* file line "  " * indent + "- name", the file being known by its extension
FolderLine(indent, name, count) ==
    [kind |-> "folder", indent |-> indent, name |-> name, count |-> count]
FileLine(indent, ext) ==
    [kind |-> "file", indent |-> indent, name |-> <<ext>>, count |-> 0]

RECURSIVE Repeat(_, _)
Repeat(line, n) == IF n = 0 THEN <<>> ELSE <<line>> \o Repeat(line, n - 1)

\* list_files_in_folder, as the file lines it gives rise to (lines 191-203 and
\* 263-266); a folder that cannot be listed gives none
list_files_in_folder(root, base_path, extension, indent) ==
    LET files == DirAt(root, base_path).files
        Of(e) == IF e \in DOMAIN files /\ (extension \in {"*", ""} \/ e = extension)
                 THEN Repeat(FileLine(indent, e), files[e]) ELSE <<>>
    IN  Of(".py") \o Of(".txt")

RECURSIVE SumCounts(_)
SumCounts(f) ==
    IF DOMAIN f = {} THEN 0
    ELSE LET e == CHOOSE x \in DOMAIN f : TRUE
         IN  f[e] + SumCounts([x \in DOMAIN f \ {e} |-> f[x]])

\* a count that ignores the extension asked for
FilteredCountOfAllFiles(node, extension) == SumCounts(node.extensions)

\* lines 215-218, 221-224 and 243-246
FilteredCount(node, extension) ==
    IF extension \in {"*", ""} THEN SumCounts(node.extensions)
    ELSE IF extension \in DOMAIN node.extensions THEN node.extensions[extension]
    ELSE 0

\* the while loop of lines 241-255: the node the merge ends on and the merged name
RECURSIVE MergeChain(_, _, _, _)
MergeChain(current_node, merged_name, current_count, extension) ==
    IF Len(current_node.children) # 1 THEN <<current_node, merged_name>>
    ELSE LET child == current_node.children[1]
             child_count == FilteredCount(child, extension)
         IN  IF child_count # 0 /\ current_count = child_count
             THEN MergeChain(child, merged_name \o <<child.folder>>,
                             current_count, extension)
             ELSE <<current_node, merged_name>>

\* get_folder_tree_str: the lines of the returned string, in order.  show_file_names
\* is "None", "True" or "False"; root is the directory that base_path is relative to.
RECURSIVE get_folder_tree_str(_, _, _, _, _, _, _, _)
RECURSIVE ChildLines(_, _, _, _, _, _, _, _, _)
ChildLines(children, k, extension, indent, root, base_path, file_count_threshold, show_file_names, max_depth) ==
    IF k > Len(children) THEN <<>>
    ELSE get_folder_tree_str(children[k], extension, indent + 1, root,
                             base_path \o <<children[k].folder>>,
                             file_count_threshold, show_file_names, max_depth)
         \o ChildLines(children, k + 1, extension, indent, root, base_path,
                       file_count_threshold, show_file_names, max_depth)

get_folder_tree_str(node, extension, indent, root, base_path, file_count_threshold, show_file_names, max_depth) ==
    LET current_count == FilteredCount(node, extension)
    IN  IF indent >= max_depth
        THEN IF current_count = 0 THEN <<>>
             ELSE <<FolderLine(indent, <<node.folder>>, current_count)>>
        ELSE IF current_count = 0 THEN <<>>
        ELSE LET show == IF show_file_names # "None" THEN show_file_names
                         ELSE IF indent = 0 /\ current_count <= file_count_threshold
                         THEN "True" ELSE "False"
                 merged == MergeChain(node, <<node.folder>>, current_count, extension)
             IN  <<FolderLine(indent, merged[2], current_count)>>
                 \o (IF show = "True"
                     THEN list_files_in_folder(root, base_path, extension, indent + 1)
                     ELSE <<>>)
                 \o ChildLines(merged[1].children, 1, extension, indent, root,
                               base_path, file_count_threshold, show, max_depth)

\* the values of file_count_threshold in config.json: a low one and the default
FileCountThresholds == {1, 30}

ExtensionFilters == {"*", ".py", ".txt"}

\* the depths asked for; MaxDepthAsked bounds them
MaxDepthAsked == 3

NotRendered ==
    [state |-> "none", extension |-> "", max_depth |-> 0, summary |-> FALSE,
     lines |-> <<>>]

\* the tree of the whole of app_dir, as folder_structure and setup build it
FolderTree == build_folder_tree_json(folderDisk, DefaultMaxDepth, 0)

\* folder_structure("./", extension, max_depth): get_folder_tree on the tree of
\* app_dir, from indent 0 with base_path app_dir
FolderStructure ==
    \E extension \in ExtensionFilters, max_depth \in 0..MaxDepthAsked :
        /\ rendered' =
               [state |-> "done", extension |-> extension, max_depth |-> max_depth,
                summary |-> FALSE,
                lines |-> get_folder_tree_str(FolderTree, extension, 0, folderDisk,
                                              <<>>, threshold, "None", max_depth)]
        /\ UNCHANGED <<folderDisk, threshold>>

\* folder_summary: the tree of all files down to depth 2 (line 457)
FolderSummary ==
    /\ rendered' =
           [state |-> "done", extension |-> "*", max_depth |-> 2, summary |-> TRUE,
            lines |-> get_folder_tree_str(FolderTree, "*", 0, folderDisk, <<>>,
                                          threshold, "None", 2)]
    /\ UNCHANGED <<folderDisk, threshold>>

FolderStart ==
    /\ folderDisk \in RootDirs
    /\ threshold \in FileCountThresholds
    /\ rendered = NotRendered

FolderIdle ==
    /\ folderDisk = Dir("root", NoFiles, <<>>)
    /\ threshold = 30
    /\ rendered = NotRendered

FolderNext == FolderStructure \/ FolderSummary

(***************************************************************************)
(* Content search with retry (search_agent.py)                             *)
(***************************************************************************)

\* A text is a sequence of tokens.  NoResultsPhrase stands for the phrase
\* "検索結果は見つかりませんでした" that search_file_with_retry looks for in a result,
\* NoSuggestionsPhrase for the sentence suggest_api returns for an empty list.
NoResultsPhrase == "no-results-phrase"
NoSuggestionsPhrase == "no-suggestions-sentence"

HasPhrase(result) == \E i \in DOMAIN result : result[i] = NoResultsPhrase

\* the paths a search can list: a file name is any name the tree holds, the phrase
\* included
PlainHit == <<"notes.txt">>
PhraseHit == <<NoResultsPhrase, ".txt">>
HitLists == {<<PlainHit>>, <<PhraseHit>>, <<PlainHit, PhraseHit>>}

\* what the request of search_file meets: no connection, a status other than 200,
\* or the "results" of the response
SearchReplies ==
    {[kind |-> "unreachable", results |-> <<>>],
     [kind |-> "status", results |-> <<>>],
     [kind |-> "ok", results |-> <<>>]}
        \cup {[kind |-> "ok", results |-> hits] : hits \in HitLists}

RECURSIVE ResultLines(_, _)
ResultLines(results, k) ==
    IF k > Len(results) THEN <<>>
    ELSE <<"- ">> \o results[k] \o <<"(score)">> \o ResultLines(results, k + 1)

\* search_file: the text returned for a reply
search_file(reply) ==
    IF reply.kind = "unreachable" THEN <<"connection-failed:", "e">>
    ELSE IF reply.kind = "status" THEN <<"error:", "response.text">>
    ELSE IF reply.results = <<>> THEN <<NoResultsPhrase, "full-stop">>
    ELSE <<"files-found:">> \o ResultLines(reply.results, 1)

\* what the request of suggest_api meets; the suggestions are terms of the index
SuggestionLists == {<<>>, <<"alpha">>, <<"alphabet">>, <<"alpha", "alphabet">>}

SuggestReplies ==
    {[kind |-> "unreachable", suggestions |-> <<>>],
     [kind |-> "status", suggestions |-> <<>>]}
        \cup {[kind |-> "ok", suggestions |-> s] : s \in SuggestionLists}

\* ", ".join(suggestions)
RECURSIVE JoinCommas(_)
JoinCommas(suggestions) ==
    IF suggestions = <<>> THEN <<>>
    ELSE IF Len(suggestions) = 1 THEN <<suggestions[1]>>
    ELSE <<suggestions[1], ", ">> \o JoinCommas(Tail(suggestions))

\* suggest_api: the text returned for a reply
suggest_api(reply) ==
    IF reply.kind = "unreachable" THEN <<"connection-failed:", "e">>
    ELSE IF reply.kind = "status" THEN <<"error:", "response.text">>
    ELSE IF reply.suggestions = <<>> THEN <<NoSuggestionsPhrase>>
    ELSE JoinCommas(reply.suggestions)

\* the texts search_files returns: a list of the paths found, or none found
FilenameReplies == {<<>>, <<PlainHit>>, <<PhraseHit>>}

SearchFilesText(paths) ==
    IF paths = <<>> THEN <<"Search results: 0 found", "No suggestions found.">>
    ELSE <<"Search results (n found):">> \o ResultLines(paths, 1)

\* re.findall(r'\b[\w\-.]+\.\w+\b', query): the tokens that look like a file name
FileNameLike == {"notes.txt", "response.text"}

FileNamesIn(query) == SelectSeq(query, LAMBDA token : token \in FileNameLike)

\* search_files_recorded(query, folder_path): the text returned and the calls of
\* search_files made, first and second being what the two calls find
search_files_recorded(query, folder_path, first, second) ==
    LET result == SearchFilesText(first)
        matches == FileNamesIn(query)
    IN  IF HasPhrase(result) /\ matches # <<>>
        THEN [result |-> SearchFilesText(second),
              calls |-> <<[query |-> query, folder |-> folder_path],
                          [query |-> <<matches[1]>>, folder |-> folder_path]>>]
        ELSE [result |-> result,
              calls |-> <<[query |-> query, folder |-> folder_path]>>]

\* the default of max_attempts
MaxAttempts == 3

RetryQueries == {<<"alpha">>, <<"notes.txt">>}

RetryIdle ==
    /\ retry = [pc |-> "idle", query |-> <<>>, attempt |-> 0, result |-> <<>>]
    /\ retryLog = [searched |-> <<>>, replies |-> <<>>, suggested |-> <<>>,
                   filename |-> <<>>]

\* the FileContentSearch tool is called: line 98
CallSearchFileWithRetry ==
    \E query \in RetryQueries :
        /\ retry.pc \in {"idle", "done"}
        /\ retry' = [pc |-> "search", query |-> query, attempt |-> 0,
                     result |-> <<>>]
        /\ retryLog' = [searched |-> <<>>, replies |-> <<>>, suggested |-> <<>>,
                        filename |-> <<>>]

\* lines 100-104: one content search; a result without the phrase is returned
SearchFile ==
    \E reply \in SearchReplies :
        /\ retry.pc = "search"
        /\ LET result == search_file(reply)
           IN  retry' = [retry EXCEPT !.result = result,
                                      !.pc = IF ~HasPhrase(result) THEN "done"
                                             ELSE "suggest"]
        /\ retryLog' = [retryLog EXCEPT !.searched = Append(@, retry.query),
                                        !.replies = Append(@, reply)]

\* lines 105-111: the query is replaced by what suggest_api returned, unless that is
\* empty or the query itself; the loop goes on while attempts are left
SuggestApi ==
    \E reply \in SuggestReplies :
        /\ retry.pc = "suggest"
        /\ LET new_query == suggest_api(reply)
           IN  retry' =
                   IF new_query # <<>> /\ new_query # retry.query
                   THEN [retry EXCEPT !.query = new_query,
                                      !.attempt = @ + 1,
                                      !.pc = IF retry.attempt + 1 < MaxAttempts
                                             THEN "search" ELSE "fallback"]
                   ELSE [retry EXCEPT !.pc = "fallback"]
        /\ retryLog' = [retryLog EXCEPT !.suggested = Append(@, suggest_api(reply))]

\* lines 114-118: after the loop, a result with the phrase is replaced by what the
\* filename search of the whole tree returns
FilenameFallback ==
    \E first \in FilenameReplies, second \in FilenameReplies :
        /\ retry.pc = "fallback"
        /\ IF HasPhrase(retry.result)
           THEN LET recorded == search_files_recorded(retry.query, "./", first, second)
                IN  /\ retry' = [retry EXCEPT !.result = recorded.result,
                                              !.pc = "done"]
                    /\ retryLog' = [retryLog EXCEPT !.filename = recorded.calls]
           ELSE /\ retry' = [retry EXCEPT !.pc = "done"]
                /\ UNCHANGED retryLog

RetryStart == RetryIdle

RetryNext ==
    \/ CallSearchFileWithRetry
    \/ SearchFile
    \/ SuggestApi
    \/ FilenameFallback

(***************************************************************************)
(* An ingestion run, step by step, with readers and a second run           *)
(* (search_localFile_endpoint.py, init.py, docs_lake_initializer.py,       *)
(* index_optimizer.py)                                                     *)
(***************************************************************************)

\* Requests 1 and 2 are POST /update; request 3 is a handler of /search or /suggest
\* that enters update_index through get_index.  What a run writes is told apart by
\* the number of the request that wrote it, 0 being the run before the model starts.
UpdateRequests == {1, 2}
HandlerRequest == 3

\* the number of shard files one run of convert_all_files writes
ShardsPerRun == 2

\* The store also keeps the setting of index_dir, how it started and whether a
\* request has failed (history).
\* index_dir of config.json as init reads it (app_dir / index_dir): a name that
\* delete_index refuses, the directory the endpoint indexes into (INDEX_DIR), or an
\* accepted name that is another directory; "starred" is a pattern that ends
\* with "__"
IndexDirSettings == {"refused", "starred", "same", "elsewhere"}

\* the path init passes to delete_index for each setting, as its pieces
IndexDirText(setting) ==
    CASE setting = "refused" -> <<"app", "/", "index">>
      [] setting = "starred" -> <<"app", "/", "*", "__">>
      [] setting = "same" -> <<"/", "srv", "/", "__", "index", "__">>
      [] OTHER -> <<"app", "/", "ix", "__">>

\* delete_index never refuses
DeleteAnyIndex(index_dir) == "success"

\* delete_index: the status it returns for a path
delete_index(index_dir) ==
    IF \/ Contains(index_dir, <<"*">>)
       \/ ~Contains(index_dir, <<"__">>)
       \/ ~EndsWith(index_dir, <<"__">>)
    THEN "error"
    ELSE "success"

NoPartition == [state |-> "missing", by |-> 0]
Committed(r) == [state |-> "committed", by |-> r]

\* the state a completed run of request 0 left: shards, mapping.json, both
\* partitions committed with their metadata tables; and the state before any run
CommittedStore(setting) ==
    [index_dir |-> setting, started |-> "committed", failures |-> FALSE,
     shards |-> 1..ShardsPerRun,
     mapping |-> "complete",
     index |-> [p \in Partitions |-> Committed(0)],
     meta |-> [p \in Partitions |-> [state |-> "written", by |-> 0]],
     lock |-> [p \in Partitions |-> 0]]

EmptyStore(setting) ==
    [index_dir |-> setting, started |-> "empty", failures |-> FALSE,
     shards |-> {},
     mapping |-> "missing",
     index |-> [p \in Partitions |-> NoPartition],
     meta |-> [p \in Partitions |-> NoPartition],
     lock |-> [p \in Partitions |-> 0]]

IdleRun ==
    [pc |-> "idle", force |-> FALSE, part |-> "docs", written |-> 0, holding |-> {}]

\* a request that has ended, one way or the other
Ended(how) == [IdleRun EXCEPT !.pc = how]

NothingObserved ==
    [state |-> "none", by |-> "", concurrent |-> FALSE, mapping |-> "missing",
     shards |-> FALSE, docs |-> FALSE, agrees |-> TRUE]

Active(r) == runs[r].pc \notin {"idle", "done", "failed"}

\* a partition and its metadata table are of one run
Agrees(partition, table) ==
    /\ (partition.state = "committed") <=> (table.state = "written")
    /\ partition.state = "committed" => partition.by = table.by

\* what a reader finds: the state of mapping.json, whether there are shard files,
\* whether the docs partition is committed, whether the partitions agree with their
\* metadata tables; concurrent tells that a request is under way and none has ever failed
Observation(by) ==
    [state |-> "read", by |-> by,
     concurrent |-> (\E r \in DOMAIN runs : Active(r)) /\ ~store.failures,
     mapping |-> store.mapping,
     shards |-> store.shards # {},
     docs |-> store.index["docs"].state = "committed",
     agrees |-> \A p \in Partitions : Agrees(store.index[p], store.meta[p])]

\* exists_in(partition directory)
exists_in(p) == store.index[p].state # "missing"

\* POST /update: event_stream has validated app_dir and enters init (lines 91-125)
StartUpdate(r) ==
    /\ r \in UpdateRequests
    /\ runs[r].pc = "idle"
    /\ \A q \in UpdateRequests : q < r => runs[q].pc # "idle"
    /\ runs' = [runs EXCEPT ![r] = [IdleRun EXCEPT !.pc = "delete_index"]]
    /\ UNCHANGED <<store, observed>>

\* shutil.rmtree(index_dir): the partitions, their metadata files and lock files go
Removed(parts) ==
    [store EXCEPT
        !.index = [p \in Partitions |-> IF p \in parts THEN NoPartition ELSE @[p]],
        !.meta = [p \in Partitions |-> IF p \in parts THEN NoPartition ELSE @[p]],
        !.lock = [p \in Partitions |-> IF p \in parts THEN 0 ELSE @[p]]]

\* init step 1, delete_index: an error for a name that does not end with "__", which
\* ends init; else rmtree, which removes everything (open files included, where the
\* platform lets it) or raises on an open file after removing some of the rest
DeleteIndex(r) ==
    /\ runs[r].pc = "delete_index"
    /\ \/ /\ delete_index(IndexDirText(store.index_dir)) = "error"
          /\ runs' = [runs EXCEPT ![r] = Ended("failed")]
          /\ store' = [store EXCEPT !.failures = TRUE]
       \/ /\ delete_index(IndexDirText(store.index_dir)) = "success"
          /\ store.index_dir # "same"
          /\ runs' = [runs EXCEPT ![r].pc = "clear"]
          /\ UNCHANGED store
       \/ /\ delete_index(IndexDirText(store.index_dir)) = "success"
          /\ store.index_dir = "same"
          /\ store' = Removed(Partitions)
          /\ runs' = [runs EXCEPT ![r].pc = "clear"]
       \/ /\ delete_index(IndexDirText(store.index_dir)) = "success"
          /\ store.index_dir = "same"
          /\ \E p \in Partitions : store.lock[p] # 0
          /\ \E parts \in SUBSET {p \in Partitions : store.lock[p] = 0} :
                 store' = [Removed(parts) EXCEPT !.failures = TRUE]
          /\ runs' = [runs EXCEPT ![r] = Ended("failed")]
    /\ UNCHANGED observed

\* init step 4, clear_docs_lake_dir: every .txt and .json of the shard directory
ClearDocsLakeDir(r) ==
    /\ runs[r].pc = "clear"
    /\ store' = [store EXCEPT !.shards = {}, !.mapping = "missing"]
    /\ runs' = [runs EXCEPT ![r].pc = "convert"]
    /\ UNCHANGED observed

\* init step 7, convert_all_files: the next shard file <file_id>.txt is written
ConvertShard(r) ==
    /\ runs[r].pc = "convert"
    /\ LET k == runs[r].written + 1
       IN  /\ store' = [store EXCEPT !.shards = @ \cup {k}]
           /\ runs' = [runs EXCEPT ![r].written = k,
                                   ![r].pc = IF k = ShardsPerRun THEN "save_mapping"
                                             ELSE "convert"]
    /\ UNCHANGED observed

\* init step 8, save_mapping: write_text opens mapping.json for writing, which
\* empties it, ...
OpenMappingFile(r) ==
    /\ runs[r].pc = "save_mapping"
    /\ store' = [store EXCEPT !.mapping = "partial"]
    /\ runs' = [runs EXCEPT ![r].pc = "write_mapping"]
    /\ UNCHANGED observed

\* ... and writes the text; update_index then starts in its thread
WriteMappingFile(r) ==
    /\ runs[r].pc = "write_mapping"
    /\ store' = [store EXCEPT !.mapping = "complete"]
    /\ runs' = [runs EXCEPT ![r].pc = "open_index"]
    /\ UNCHANGED observed

\* update_index lines 64-118, with force_rebuild as the caller passes it (the force
\* parameter of the request for /update, line 146; False for get_index): a missing
\* directory forces the rebuild; create_in replaces a partition by an empty index,
\* open_dir leaves it
OpenIndexes(r) ==
    \E force_rebuild \in IF r \in UpdateRequests THEN BOOLEAN ELSE {FALSE} :
        /\ runs[r].pc = "open_index"
        /\ LET force == force_rebuild \/ \E p \in Partitions : ~exists_in(p)
           IN  /\ store' = [store EXCEPT !.index =
                                [p \in Partitions |->
                                    IF force THEN [state |-> "empty", by |-> r]
                                    ELSE @[p]]]
               /\ runs' = [runs EXCEPT ![r].force = force, ![r].pc = "writer",
                                       ![r].part = "docs"]
        /\ UNCHANGED observed

NextPartition(r) ==
    IF runs[r].part = "docs"
    THEN [runs EXCEPT ![r].pc = "writer", ![r].part = "other"]
    ELSE [runs EXCEPT ![r] = Ended("done")]

\* lines 158-161 and 199-202: with nothing to update the partition is skipped; else
\* ix.writer() takes the partition's write lock, or raises LockError if it is held
OpenWriter(r) ==
    \E dirty \in BOOLEAN :
        /\ runs[r].pc = "writer"
        /\ LET p == runs[r].part
           IN  IF ~(dirty \/ runs[r].force)
               THEN /\ runs' = NextPartition(r)
                    /\ UNCHANGED store
               ELSE IF store.lock[p] # 0
               THEN /\ runs' = [runs EXCEPT ![r] = Ended("failed")]
                    /\ store' = [store EXCEPT !.failures = TRUE]
               ELSE /\ store' = [store EXCEPT !.lock[p] = r]
                    /\ runs' = [runs EXCEPT ![r].pc = "commit",
                                            ![r].holding = @ \cup {p}]
        /\ UNCHANGED observed

\* lines 184 and 219: writer.commit() publishes the partition and releases the lock
Commit(r) ==
    /\ runs[r].pc = "commit"
    /\ LET p == runs[r].part
       IN  /\ store' = [store EXCEPT !.index[p] = Committed(r),
                                     !.lock[p] = IF @ = r THEN 0 ELSE @]
           /\ runs' = [runs EXCEPT ![r].pc = "dump", ![r].holding = @ \ {p}]
    /\ UNCHANGED observed

\* lines 185-186 and 220-221: pickle.dump of the partition's current metadata
DumpMetadata(r) ==
    /\ runs[r].pc = "dump"
    /\ store' = [store EXCEPT !.meta[runs[r].part] = [state |-> "written", by |-> r]]
    /\ runs' = NextPartition(r)
    /\ UNCHANGED observed

\* the run stops where it is: the client goes away at a yield, a step raises, or
\* the process is stopped; a writer it held is dropped with its lock
Interrupt(r) ==
    /\ Active(r)
    /\ runs' = [runs EXCEPT ![r] = Ended("failed")]
    /\ store' = [store EXCEPT !.failures = TRUE,
                              !.lock = [p \in Partitions |-> IF @[p] = r THEN 0
                                                              ELSE @[p]]]
    /\ UNCHANGED observed

\* get_index in a handler of /search or /suggest, both partitions being there
\* (line 240): the handler opens and reads them
GetIndexOpens ==
    /\ runs[HandlerRequest].pc \in {"idle", "done", "failed"}
    /\ \A p \in Partitions : exists_in(p)
    /\ observed' = Observation("search")
    /\ runs' = [runs EXCEPT ![HandlerRequest] = IdleRun]
    /\ UNCHANGED store

\* get_index with a partition missing (lines 235-236): the handler runs update_index
GetIndexUpdates ==
    /\ runs[HandlerRequest].pc \in {"idle", "done", "failed"}
    /\ \E p \in Partitions : ~exists_in(p)
    /\ runs' = [runs EXCEPT ![HandlerRequest] = [IdleRun EXCEPT !.pc = "open_index"]]
    /\ UNCHANGED <<store, observed>>

\* /file for an office document: mapping.json and the shard files are read
ReadShards ==
    /\ observed' = Observation("file")
    /\ UNCHANGED <<store, runs>>

IngestStart ==
    /\ \E setting \in IndexDirSettings :
           store \in {CommittedStore(setting), EmptyStore(setting)}
    /\ runs = [r \in UpdateRequests \cup {HandlerRequest} |-> IdleRun]
    /\ observed = NothingObserved

IngestIdle ==
    /\ store = EmptyStore("refused")
    /\ runs = [r \in UpdateRequests \cup {HandlerRequest} |-> IdleRun]
    /\ observed = NothingObserved

\* the steps of the requests: /update for the requests of updates, update_index
\* for these and the handler
RequestSteps(updates) ==
    \/ \E r \in updates :
           \/ StartUpdate(r)
           \/ DeleteIndex(r)
           \/ ClearDocsLakeDir(r)
           \/ ConvertShard(r)
           \/ OpenMappingFile(r)
           \/ WriteMappingFile(r)
    \/ \E r \in updates \cup {HandlerRequest} :
           \/ OpenIndexes(r)
           \/ OpenWriter(r)
           \/ Commit(r)
           \/ DumpMetadata(r)
           \/ Interrupt(r)
    \/ GetIndexUpdates

\* one /update with readers
IngestNext ==
    \/ RequestSteps({1})
    \/ GetIndexOpens
    \/ ReadShards

\* two /update requests and a handler that enters update_index
OverlapNext == RequestSteps(UpdateRequests)

(***************************************************************************)
(* The configuration file and its lock (config_manager.py)                 *)
(***************************************************************************)

\* the threads of the server that call into config_manager
ConfigThreads == {"t1", "t2"}
NoThread == "none"

\* config.json as the application ships it
ShippedConfig ==
    [end_point |-> "http://a", api_key |-> "key-1", app_dir |-> "/srv/work",
     docs_lake_dir |-> "/srv/__docs__", index_dir |-> "indexdir"]

\* str(Path(path_str).expanduser().resolve()): the home directory is expanded,
\* a relative path is made absolute from the working directory
normalize_path(path_str) ==
    CASE path_str = "~/work" -> "/home/user/work"
      [] path_str = "work" -> "/srv/work"
      [] path_str = "lake" -> "/srv/lake"
      [] OTHER -> path_str

\* update_config: only these keys of new_data are taken
allowed_keys == {"end_point", "api_key", "app_dir"}

\* what a request passes to update_config; one carries a key that is not allowed
NewData ==
    {[end_point |-> "http://b"],
     [api_key |-> "key-2", app_dir |-> "~/work"],
     [app_dir |-> "work", index_dir |-> "elsewhere"]}

\* what init() passes to set_doc_lake_dir
NewDirs == {[new_dir |-> "lake"], [new_dir |-> "/srv/__docs__"]}

NoArguments == [nothing |-> ""]

\* lines 27-33: the assignments update_config makes to the loaded config
UpdatedConfig(config, new_data) ==
    [key \in DOMAIN config |->
        IF key \in allowed_keys /\ key \in DOMAIN new_data
        THEN IF key = "app_dir" THEN normalize_path(new_data[key])
                                ELSE new_data[key]
        ELSE config[key]]

\* line 41: the assignment set_doc_lake_dir makes to the loaded config
WithDocLakeDir(config, new_dir) ==
    [config EXCEPT !["docs_lake_dir"] = normalize_path(new_dir)]

\* the config a writing call dumps, from the config it loaded
Assigned(op, arguments, config) ==
    IF op = "update_config" THEN UpdatedConfig(config, arguments)
    ELSE WithDocLakeDir(config, arguments.new_dir)

\* config.json on disk: open(_config_file, 'w') leaves it empty until the dump
\* is flushed
WholeFile(config) == [complete |-> TRUE, config |-> config]
TruncatedFile == [complete |-> FALSE, config |-> ShippedConfig]

FreeLock == [owner |-> NoThread, count |-> 0]

\* a lock that never makes a caller wait
AcquireAnyway(t) == TRUE

\* threading.RLock: the owner may acquire it again
CanAcquire(t) == configLock.owner \in {NoThread, t}

IdleCaller == [pc |-> "idle", op |-> "none", arguments |-> NoArguments,
               config |-> WholeFile(ShippedConfig)]

ConfigIdle ==
    /\ configFile = WholeFile(ShippedConfig)
    /\ configLock = FreeLock
    /\ callers = [t \in ConfigThreads |-> IdleCaller]
    /\ completed = [expected |-> ShippedConfig, contents |-> {ShippedConfig}]

\* a thread calls get_config: line 19
CallGetConfig(t) ==
    /\ callers[t].pc = "idle"
    /\ callers' = [callers EXCEPT ![t] =
            [IdleCaller EXCEPT !.pc = "load", !.op = "get_config"]]
    /\ UNCHANGED <<configFile, configLock, completed>>

\* a thread calls update_config or set_doc_lake_dir and waits for the lock:
\* lines 23-25, 38-39
CallWriter(t) ==
    \E op \in {"update_config", "set_doc_lake_dir"} :
    \E arguments \in IF op = "update_config" THEN NewData ELSE NewDirs :
        /\ callers[t].pc = "idle"
        /\ callers' = [callers EXCEPT ![t] =
                [IdleCaller EXCEPT !.pc = "acquire", !.op = op,
                                   !.arguments = arguments]]
        /\ UNCHANGED <<configFile, configLock, completed>>

\* with _config_lock: lines 25, 39
AcquireLock(t) ==
    /\ callers[t].pc = "acquire"
    /\ CanAcquire(t)
    /\ configLock' = [owner |-> t, count |-> configLock.count + 1]
    /\ callers' = [callers EXCEPT ![t].pc = "load"]
    /\ UNCHANGED <<configFile, completed>>

\* load_config: lines 13-17; the lock is taken for the read and given back
\* (a writer holds it already and keeps it); json.load raises on an empty file
LoadConfig(t) ==
    /\ callers[t].pc = "load"
    /\ CanAcquire(t)
    /\ callers' = [callers EXCEPT ![t].config = configFile,
            ![t].pc = IF ~configFile.complete THEN "raise"
                      ELSE IF callers[t].op = "get_config" THEN "return"
                      ELSE "open"]
    /\ UNCHANGED <<configFile, configLock, completed>>

\* open(_config_file, 'w'): lines 34, 42; the assignments of lines 27-33, 41
\* are made to the loaded config before
OpenForWriting(t) ==
    /\ callers[t].pc = "open"
    /\ configFile' = TruncatedFile
    /\ callers' = [callers EXCEPT ![t].pc = "dump",
            ![t].config = WholeFile(Assigned(callers[t].op, callers[t].arguments,
                                             callers[t].config.config))]
    /\ UNCHANGED <<configLock, completed>>

\* json.dump and the end of the inner with: lines 35, 43
DumpConfig(t) ==
    /\ callers[t].pc = "dump"
    /\ configFile' = callers[t].config
    /\ callers' = [callers EXCEPT ![t].pc = "release"]
    /\ UNCHANGED <<configLock, completed>>

\* the lock as the with statement of lines 25, 39 leaves it
Released(t) ==
    IF configLock.owner # t THEN configLock
    ELSE IF configLock.count > 1 THEN [configLock EXCEPT !.count = @ - 1]
    ELSE FreeLock

\* the end of with _config_lock and the return: lines 36, 44; the write is
\* completed, and its effect joins the effects of the writes completed before
ReleaseLock(t) ==
    /\ callers[t].pc = "release"
    /\ configLock' = Released(t)
    /\ completed' =
            LET after == Assigned(callers[t].op, callers[t].arguments,
                                  completed.expected)
            IN  [expected |-> after, contents |-> completed.contents \cup {after}]
    /\ callers' = [callers EXCEPT ![t] = IdleCaller]
    /\ UNCHANGED configFile

\* the call ends: get_config returns what it loaded (line 21), or json.load's
\* exception leaves through the with statements, which give the lock back
EndCall(t) ==
    /\ callers[t].pc \in {"return", "raise"}
    /\ configLock' = Released(t)
    /\ callers' = [callers EXCEPT ![t] = IdleCaller]
    /\ UNCHANGED <<configFile, completed>>

ConfigStart == ConfigIdle

ConfigNext ==
    \E t \in ConfigThreads :
        \/ CallGetConfig(t)
        \/ CallWriter(t)
        \/ AcquireLock(t)
        \/ LoadConfig(t)
        \/ OpenForWriting(t)
        \/ DumpConfig(t)
        \/ ReleaseLock(t)
        \/ EndCall(t)

(***************************************************************************)
(* Module names and import resolution over a deeper tree                   *)
(* (code_analyze_tools.py)                                                 *)
(***************************************************************************)

\* base_dir and the directories and files that are always there
LayoutRoot == <<<<"base">>>>
DirX == Append(LayoutRoot, <<"x">>)
DirY == Append(DirX, <<"y">>)
DirZ == Append(DirY, <<"z">>)
FileInY == Append(DirY, <<"f">> \o DotPy)
FileInZ == Append(DirZ, <<"g">> \o DotPy)
FixedLayout ==
    [dirs |-> {LayoutRoot, DirX, DirY, DirZ}, files |-> {FileInY, FileInZ}]
NoLayout == [dirs |-> {}, files |-> {}]

\* what may be there or not: the package markers of the chain, and the
\* candidates of "import m" beside the importing file and one level up
ImportedName == <<"m">>
OptionalDirs == {Append(DirY, ImportedName), Append(DirX, ImportedName)}
OptionalFiles ==
    {Append(d, InitPy) : d \in {DirX, DirY, DirZ} \cup OptionalDirs}
        \cup {Append(d, ImportedName \o DotPy) : d \in {DirX, DirY}}

NotResolved == [kind |-> "none", of |-> <<>>, name |-> <<>>, result |-> NotFound]

LayoutIdle ==
    /\ layout = NoLayout
    /\ resolution = NotResolved

LayoutStart ==
    /\ layout = FixedLayout
    /\ resolution = NotResolved

\* a directory or a file is made; a file needs its directory
MakeDirectory(d) ==
    /\ d \notin layout.dirs
    /\ layout' = [layout EXCEPT !.dirs = @ \cup {d}]
    /\ resolution' = NotResolved

MakeFile(f) ==
    /\ f \notin layout.files
    /\ dirname(f) \in layout.dirs
    /\ layout' = [layout EXCEPT !.files = @ \cup {f}]
    /\ resolution' = NotResolved

\* a file is removed, or a directory with all it holds
RemoveFromLayout(p) ==
    /\ p \in layout.dirs \cup layout.files
    /\ layout' = [dirs |-> layout.dirs \ {p},
                  files |-> {f \in layout.files : f # p /\ dirname(f) # p}]
    /\ resolution' = NotResolved

\* determine_module_name(file_path, base_dir) for a file of the tree
DetermineModuleName(file_path) ==
    /\ file_path \in layout.files
    /\ resolution' = [kind |-> "module", of |-> file_path,
                      name |-> determine_module_name(file_path, LayoutRoot),
                      result |-> NotFound]
    /\ UNCHANGED layout

\* resolve_imported_file_path(module_name, current_file, 0) for "import m"
ResolveImportedFilePath(current_file) ==
    /\ resolution' = [kind |-> "import", of |-> current_file, name |-> ImportedName,
                      result |-> resolve_imported_file_path(ImportedName, current_file, 0)]
    /\ UNCHANGED layout

LayoutNext ==
    \/ \E d \in OptionalDirs : MakeDirectory(d)
    \/ \E f \in OptionalFiles : MakeFile(f)
    \/ \E p \in OptionalDirs \cup OptionalFiles : RemoveFromLayout(p)
    \/ \E file_path \in OptionalFiles \cup {FileInY, FileInZ} : DetermineModuleName(file_path)
    \/ \E current_file \in {FileInY, FileInZ} : ResolveImportedFilePath(current_file)

(***************************************************************************)
(* The fan-out of build_folder_tree_json over the subdirectories           *)
(* (directory_search_utils.py)                                             *)
(***************************************************************************)

\* Directories with more than five subdirectories: d3 goes two levels further
\* down, the others have files only.
WideRoots ==
    {Dir("root", f,
         <<Dir("d1", a, <<>>), Dir("d2", PyAndTxt, <<>>),
           Dir("d3", OnePy, <<Dir("e", PyAndTxt, <<Dir("g", OnePy, <<>>)>>)>>),
           Dir("d4", NoFiles, <<>>), Dir("d5", OnePy, <<>>),
           Dir("d6", PyAndTxt, <<>>)>>) : f \in OwnFiles, a \in OwnFiles}

\* the max_depth a caller passes: the default, or a limit the trees can exceed
MaxDepths == {1, DefaultMaxDepth}

NoBuild ==
    [pc |-> "idle", directory |-> NoDir, max_depth |-> DefaultMaxDepth,
     node |-> [folder |-> "", extensions |-> EmptyMap, children |-> <<>>],
     pending |-> {}]

FanoutIdle == fanout = NoBuild

FanoutStart == FanoutIdle

\* build_folder_tree_json(directory, max_depth=max_depth) is called: the files of
\* the directory are counted (lines 82-105), then the subdirectories are handed
\* to the executor when there are more than five of them (lines 111-126), or
\* visited one after the other (lines 140-152)
CallBuildFolderTree(directory, max_depth) ==
    /\ fanout.pc = "idle"
    /\ fanout' =
           IF 0 < 2 /\ Len(directory.children) > 5
           THEN [pc |-> "collecting", directory |-> directory, max_depth |-> max_depth,
                 node |-> [folder |-> directory.folder,
                           extensions |-> directory.files, children |-> <<>>],
                 pending |-> DOMAIN directory.children]
           ELSE [pc |-> "done", directory |-> directory, max_depth |-> max_depth,
                 node |-> build_folder_tree_json(directory, max_depth, 0),
                 pending |-> {}]

\* as_completed yields the future of one subdirectory, whichever worker ends
\* first: its tree is appended and its counts are added (lines 129-135); after
\* the last one the dict is returned (lines 155-156)
FutureCompleted(k) ==
    /\ fanout.pc = "collecting"
    /\ k \in fanout.pending
    /\ LET child_tree == build_folder_tree_json(fanout.directory.children[k],
                                                fanout.max_depth, 1)
       IN  fanout' =
               [fanout EXCEPT
                   !.node = [@ EXCEPT !.children = Append(@, child_tree),
                                      !.extensions = AddCounts(@, child_tree.extensions)],
                   !.pending = @ \ {k},
                   !.pc = IF fanout.pending = {k} THEN "done" ELSE "collecting"]

\* the caller has the tree
ReturnTree ==
    /\ fanout.pc = "done"
    /\ fanout' = NoBuild

FanoutNext ==
    \/ \E directory \in WideRoots \cup RootDirs, max_depth \in MaxDepths :
            CallBuildFolderTree(directory, max_depth)
    \/ \E k \in 1..6 : FutureCompleted(k)
    \/ ReturnTree

(***************************************************************************)
(* The progress queue of /update (search_localFile_endpoint.py)            *)
(***************************************************************************)

\* the number of progress messages one update_index run reports at most
MaxMessages == 3

Progress(n) == [kind |-> "progress", n |-> n]
FinalEvent(kind) == [kind |-> kind, n |-> 0]

NoWorker == [pc |-> "none", put |-> 0, raised |-> FALSE]

StreamIdle ==
    /\ worker = NoWorker
    /\ progress_queue = <<>>
    /\ stream = [pc |-> "idle", emitted |-> <<>>]

StreamStart == StreamIdle

\* update_thread.start(): lines 157-158
StartUpdateThread ==
    /\ stream.pc = "idle"
    /\ worker' = [NoWorker EXCEPT !.pc = "running"]
    /\ stream' = [stream EXCEPT !.pc = "test_alive"]
    /\ UNCHANGED progress_queue

\* update_index calls progress_callback: the message is put on the queue
\* (lines 80-86)
ProgressCallback ==
    /\ worker.pc = "running"
    /\ worker.put < MaxMessages
    /\ progress_queue' = Append(progress_queue, Progress(worker.put + 1))
    /\ worker' = [worker EXCEPT !.put = @ + 1]
    /\ UNCHANGED stream

\* run_update ends, update_index having returned or raised (lines 150-155)
ThreadEnds(raised) ==
    /\ worker.pc = "running"
    /\ worker' = [worker EXCEPT !.pc = "ended", !.raised = raised]
    /\ UNCHANGED <<progress_queue, stream>>

\* a loop that looks at the thread only
AfterAliveTestOnly(alive) == IF alive THEN "drain" ELSE "join"

\* the first operand of the while condition of line 160: when the thread is not
\* alive the queue is looked at next
AfterAliveTest(alive) == IF alive THEN "drain" ELSE "test_empty"

\* update_thread.is_alive(): line 160
TestIsAlive ==
    /\ stream.pc = "test_alive"
    /\ stream' = [stream EXCEPT !.pc = AfterAliveTest(worker.pc = "running")]
    /\ UNCHANGED <<worker, progress_queue>>

\* not progress_queue.empty(): line 160
TestEmpty ==
    /\ stream.pc = "test_empty"
    /\ stream' = [stream EXCEPT !.pc = IF progress_queue # <<>> THEN "drain" ELSE "join"]
    /\ UNCHANGED <<worker, progress_queue>>

\* the inner loop: one message is taken and yielded, or the queue is empty and
\* the loop sleeps (lines 162-166)
Drain ==
    /\ stream.pc = "drain"
    /\ IF progress_queue = <<>>
       THEN /\ stream' = [stream EXCEPT !.pc = "sleep"]
            /\ UNCHANGED progress_queue
       ELSE /\ stream' = [stream EXCEPT !.emitted = Append(@, Head(progress_queue))]
            /\ progress_queue' = Tail(progress_queue)
    /\ UNCHANGED worker

\* time.sleep(0.2) is over: line 167
Sleep ==
    /\ stream.pc = "sleep"
    /\ stream' = [stream EXCEPT !.pc = "test_alive"]
    /\ UNCHANGED <<worker, progress_queue>>

\* update_thread.join() and the final event: lines 168-181
JoinAndFinish ==
    /\ stream.pc = "join"
    /\ worker.pc = "ended"
    /\ stream' = [pc |-> "closed",
                  emitted |-> Append(stream.emitted,
                        FinalEvent(IF worker.raised THEN "error" ELSE "success"))]
    /\ UNCHANGED <<worker, progress_queue>>

\* the steps of the generator, which the server keeps iterating
StreamLoop == TestIsAlive \/ TestEmpty \/ Drain \/ Sleep \/ JoinAndFinish

StreamNext ==
    \/ StartUpdateThread
    \/ ProgressCallback
    \/ \E raised \in BOOLEAN : ThreadEnds(raised)
    \/ TestIsAlive
    \/ TestEmpty
    \/ Drain
    \/ Sleep
    \/ JoinAndFinish

(***************************************************************************)
(* The lists of the agent's queries and files (search_agent.py)            *)
(***************************************************************************)

\* the requests served at a time, and the tool calls one agent run makes at most
AgentRequests == {"r1", "r2"}
MaxToolCalls == 2

\* what the agent of each request searches for and reads
QueriesOf(r) == IF r = "r1" THEN {"alpha"} ELSE {"beta"}
FilePathsOf(r) == IF r = "r1" THEN {"a.py", "common.py"} ELSE {"b.py", "common.py"}

NoAgent ==
    [pc |-> "idle", queries |-> <<>>, paths |-> <<>>, alone |-> TRUE,
     result |-> [search_queries |-> <<>>, file_paths |-> <<>>]]

AgentIdle ==
    /\ agent_search_queries = <<>>
    /\ agent_file_paths = <<>>
    /\ agents = [r \in AgentRequests |-> NoAgent]

AgentStart == AgentIdle

InList(x, list) == \E i \in DOMAIN list : list[i] = x

\* the other requests whose agent is running lose the mark of running alone
Overlapping(r, table) ==
    [q \in AgentRequests |->
        IF q # r /\ table[q].pc = "running" THEN [table[q] EXCEPT !.alone = FALSE]
        ELSE table[q]]

\* run_search_agent begins: the two globals are bound to new empty lists
\* (lines 338-341)
RunSearchAgent(r) ==
    /\ agents[r].pc = "idle"
    /\ agent_search_queries' = <<>>
    /\ agent_file_paths' = <<>>
    /\ agents' = Overlapping(r, [agents EXCEPT ![r] =
            [NoAgent EXCEPT !.pc = "running",
                            !.alone = \A q \in AgentRequests : agents[q].pc # "running"]])

\* the agent calls a search tool, which appends the query to the list the
\* global names at that moment (lines 81-84, 164-169)
RecordQuery(r, query) ==
    /\ agents[r].pc = "running"
    /\ Len(agents[r].queries) + Len(agents[r].paths) < MaxToolCalls
    /\ agent_search_queries' = Append(agent_search_queries, query)
    /\ agents' = [agents EXCEPT ![r].queries = Append(@, query)]
    /\ UNCHANGED agent_file_paths

\* the agent reads a file: get_file_contents_api appends the path unless the
\* list holds it already (lines 143-144)
RecordFilePath(r, file_path) ==
    /\ agents[r].pc = "running"
    /\ Len(agents[r].queries) + Len(agents[r].paths) < MaxToolCalls
    /\ agent_file_paths' = IF InList(file_path, agent_file_paths) THEN agent_file_paths
                           ELSE Append(agent_file_paths, file_path)
    /\ agents' = [agents EXCEPT ![r].paths =
            IF InList(file_path, @) THEN @ ELSE Append(@, file_path)]
    /\ UNCHANGED agent_search_queries

\* run_search_agent returns the lists the globals name (lines 427-432)
ReturnResult(r) ==
    /\ agents[r].pc = "running"
    /\ agents' = [agents EXCEPT ![r].pc = "returned",
            ![r].result = [search_queries |-> agent_search_queries,
                           file_paths |-> agent_file_paths]]
    /\ UNCHANGED <<agent_search_queries, agent_file_paths>>

\* the response has been sent
SendResponse(r) ==
    /\ agents[r].pc = "returned"
    /\ agents' = [agents EXCEPT ![r] = NoAgent]
    /\ UNCHANGED <<agent_search_queries, agent_file_paths>>

AgentNext ==
    \E r \in AgentRequests :
        \/ RunSearchAgent(r)
        \/ \E query \in QueriesOf(r) : RecordQuery(r, query)
        \/ \E file_path \in FilePathsOf(r) : RecordFilePath(r, file_path)
        \/ ReturnResult(r)
        \/ SendResponse(r)

(***************************************************************************)
(* The specifications, one per subsystem                                   *)
(***************************************************************************)

IndexInit == IndexStart /\ AnalyzerIdle /\ ShardsIdle /\ SearchIdle /\ FilesIdle /\ BindIdle /\ ServeIdle /\ FolderIdle /\ RetryIdle /\ IngestIdle /\ ConfigIdle /\ LayoutIdle /\ FanoutIdle /\ StreamIdle /\ AgentIdle

SpecIndex ==
    IndexInit /\ [][IndexNext /\ UNCHANGED <<anVars, shVars, seVars, fiVars, biVars, svVars, foVars, rtVars, inVars, cmVars, laVars, faVars, stVars, agVars>>]_vars

AnalyzerInit == AnalyzerStart /\ IndexIdle /\ ShardsIdle /\ SearchIdle /\ FilesIdle /\ BindIdle /\ ServeIdle /\ FolderIdle /\ RetryIdle /\ IngestIdle /\ ConfigIdle /\ LayoutIdle /\ FanoutIdle /\ StreamIdle /\ AgentIdle

SpecAnalyzer ==
    AnalyzerInit /\ [][AnalyzerNext /\ UNCHANGED <<ixVars, shVars, seVars, fiVars, biVars, svVars, foVars, rtVars, inVars, cmVars, laVars, faVars, stVars, agVars>>]_vars

ShardsInit == ShardsStart /\ IndexIdle /\ AnalyzerIdle /\ SearchIdle /\ FilesIdle /\ BindIdle /\ ServeIdle /\ FolderIdle /\ RetryIdle /\ IngestIdle /\ ConfigIdle /\ LayoutIdle /\ FanoutIdle /\ StreamIdle /\ AgentIdle

SpecShards ==
    ShardsInit /\ [][ShardsNext /\ UNCHANGED <<ixVars, anVars, seVars, fiVars, biVars, svVars, foVars, rtVars, inVars, cmVars, laVars, faVars, stVars, agVars>>]_vars

SearchInit == SearchStart /\ IndexIdle /\ AnalyzerIdle /\ ShardsIdle /\ FilesIdle /\ BindIdle /\ ServeIdle /\ FolderIdle /\ RetryIdle /\ IngestIdle /\ ConfigIdle /\ LayoutIdle /\ FanoutIdle /\ StreamIdle /\ AgentIdle

SpecSearch ==
    SearchInit /\ [][SearchNext /\ UNCHANGED <<ixVars, anVars, shVars, fiVars, biVars, svVars, foVars, rtVars, inVars, cmVars, laVars, faVars, stVars, agVars>>]_vars

FilesInit == FilesStart /\ IndexIdle /\ AnalyzerIdle /\ ShardsIdle /\ SearchIdle /\ BindIdle /\ ServeIdle /\ FolderIdle /\ RetryIdle /\ IngestIdle /\ ConfigIdle /\ LayoutIdle /\ FanoutIdle /\ StreamIdle /\ AgentIdle

SpecFiles ==
    FilesInit /\ [][FilesNext /\ UNCHANGED <<ixVars, anVars, shVars, seVars, biVars, svVars, foVars, rtVars, inVars, cmVars, laVars, faVars, stVars, agVars>>]_vars

BindInit == BindStart /\ IndexIdle /\ AnalyzerIdle /\ ShardsIdle /\ SearchIdle /\ FilesIdle /\ ServeIdle /\ FolderIdle /\ RetryIdle /\ IngestIdle /\ ConfigIdle /\ LayoutIdle /\ FanoutIdle /\ StreamIdle /\ AgentIdle

SpecBind ==
    BindInit /\ [][BindNext /\ UNCHANGED <<ixVars, anVars, shVars, seVars, fiVars, svVars, foVars, rtVars, inVars, cmVars, laVars, faVars, stVars, agVars>>]_vars

ServeInit == ServeStart /\ IndexIdle /\ AnalyzerIdle /\ ShardsIdle /\ SearchIdle /\ FilesIdle /\ BindIdle /\ FolderIdle /\ RetryIdle /\ IngestIdle /\ ConfigIdle /\ LayoutIdle /\ FanoutIdle /\ StreamIdle /\ AgentIdle

SpecServe ==
    ServeInit /\ [][ServeNext /\ UNCHANGED <<ixVars, anVars, shVars, seVars, fiVars, biVars, foVars, rtVars, inVars, cmVars, laVars, faVars, stVars, agVars>>]_vars

FolderInit == FolderStart /\ IndexIdle /\ AnalyzerIdle /\ ShardsIdle /\ SearchIdle /\ FilesIdle /\ BindIdle /\ ServeIdle /\ RetryIdle /\ IngestIdle /\ ConfigIdle /\ LayoutIdle /\ FanoutIdle /\ StreamIdle /\ AgentIdle

SpecFolder ==
    FolderInit /\ [][FolderNext /\ UNCHANGED <<ixVars, anVars, shVars, seVars, fiVars, biVars, svVars, rtVars, inVars, cmVars, laVars, faVars, stVars, agVars>>]_vars

RetryInit == RetryStart /\ IndexIdle /\ AnalyzerIdle /\ ShardsIdle /\ SearchIdle /\ FilesIdle /\ BindIdle /\ ServeIdle /\ FolderIdle /\ IngestIdle /\ ConfigIdle /\ LayoutIdle /\ FanoutIdle /\ StreamIdle /\ AgentIdle

SpecRetry ==
    RetryInit /\ [][RetryNext /\ UNCHANGED <<ixVars, anVars, shVars, seVars, fiVars, biVars, svVars, foVars, inVars, cmVars, laVars, faVars, stVars, agVars>>]_vars

IngestInit == IngestStart /\ IndexIdle /\ AnalyzerIdle /\ ShardsIdle /\ SearchIdle /\ FilesIdle /\ BindIdle /\ ServeIdle /\ FolderIdle /\ RetryIdle /\ ConfigIdle /\ LayoutIdle /\ FanoutIdle /\ StreamIdle /\ AgentIdle

SpecIngest ==
    IngestInit /\ [][IngestNext /\ UNCHANGED <<ixVars, anVars, shVars, seVars, fiVars, biVars, svVars, foVars, rtVars, cmVars, laVars, faVars, stVars, agVars>>]_vars

ConfigInit == ConfigStart /\ IndexIdle /\ AnalyzerIdle /\ ShardsIdle /\ SearchIdle /\ FilesIdle /\ BindIdle /\ ServeIdle /\ FolderIdle /\ RetryIdle /\ IngestIdle /\ LayoutIdle /\ FanoutIdle /\ StreamIdle /\ AgentIdle

SpecConfig ==
    ConfigInit /\ [][ConfigNext /\ UNCHANGED <<ixVars, anVars, shVars, seVars, fiVars, biVars, svVars, foVars, rtVars, inVars, laVars, faVars, stVars, agVars>>]_vars

LayoutInit == LayoutStart /\ IndexIdle /\ AnalyzerIdle /\ ShardsIdle /\ SearchIdle /\ FilesIdle /\ BindIdle /\ ServeIdle /\ FolderIdle /\ RetryIdle /\ IngestIdle /\ ConfigIdle /\ FanoutIdle /\ StreamIdle /\ AgentIdle

SpecLayout ==
    LayoutInit /\ [][LayoutNext /\ UNCHANGED <<ixVars, anVars, shVars, seVars, fiVars, biVars, svVars, foVars, rtVars, inVars, cmVars, faVars, stVars, agVars>>]_vars

FanoutInit == FanoutStart /\ IndexIdle /\ AnalyzerIdle /\ ShardsIdle /\ SearchIdle /\ FilesIdle /\ BindIdle /\ ServeIdle /\ FolderIdle /\ RetryIdle /\ IngestIdle /\ ConfigIdle /\ LayoutIdle /\ StreamIdle /\ AgentIdle

SpecFanout ==
    FanoutInit /\ [][FanoutNext /\ UNCHANGED <<ixVars, anVars, shVars, seVars, fiVars, biVars, svVars, foVars, rtVars, inVars, cmVars, laVars, stVars, agVars>>]_vars

StreamInit == StreamStart /\ IndexIdle /\ AnalyzerIdle /\ ShardsIdle /\ SearchIdle /\ FilesIdle /\ BindIdle /\ ServeIdle /\ FolderIdle /\ RetryIdle /\ IngestIdle /\ ConfigIdle /\ LayoutIdle /\ FanoutIdle /\ AgentIdle

SpecStream ==
    StreamInit /\ [][StreamNext /\ UNCHANGED <<ixVars, anVars, shVars, seVars, fiVars, biVars, svVars, foVars, rtVars, inVars, cmVars, laVars, faVars, agVars>>]_vars
        /\ WF_vars(StreamLoop /\ UNCHANGED <<ixVars, anVars, shVars, seVars, fiVars, biVars, svVars, foVars, rtVars, inVars, cmVars, laVars, faVars, agVars>>)

AgentInit == AgentStart /\ IndexIdle /\ AnalyzerIdle /\ ShardsIdle /\ SearchIdle /\ FilesIdle /\ BindIdle /\ ServeIdle /\ FolderIdle /\ RetryIdle /\ IngestIdle /\ ConfigIdle /\ LayoutIdle /\ FanoutIdle /\ StreamIdle

SpecAgent ==
    AgentInit /\ [][AgentNext /\ UNCHANGED <<ixVars, anVars, shVars, seVars, fiVars, biVars, svVars, foVars, rtVars, inVars, cmVars, laVars, faVars, stVars>>]_vars

SpecOverlap ==
    IngestInit /\ [][OverlapNext /\ UNCHANGED <<ixVars, anVars, shVars, seVars, fiVars, biVars, svVars, foVars, rtVars, cmVars, laVars, faVars, stVars, agVars>>]_vars

(***************************************************************************)
(* The claims                                                              *)
(***************************************************************************)

\* The keys of a partition's persisted metadata table.
MetaKeys(m, part) == DOMAIN m[part].table

\* C1: after every update_index run, in each partition the path keys of the
\* inverted index are exactly the keys of the persisted file_metadata table.
C1_IndexKeysEqualMetadataKeys ==
    lastRun.ran => \A part \in Partitions : ix[part] = MetaKeys(meta, part)

\* C2: every path of a partition's previous metadata that is no longer an eligible
\* file on disk is gone from the index and from the persisted metadata when the
\* next run ends, also when nothing else in the partition is new or changed.
C2_RemovedPathDroppedInSameRun ==
    lastRun.ran =>
        \A part \in Partitions :
            \A p \in MetaKeys(lastRun.metaBefore, part) :
                p \notin Walked(part) =>
                    p \notin ix[part] /\ p \notin MetaKeys(meta, part)

\* The run that has just ended was not forced and followed a run with no change
\* of the tree in between.
RerunWithoutChange ==
    lastRun.ran /\ ~lastRun.force /\ lastRun.since = <<"none">>

\* C3: a second, unforced run with no change in between calls update_document and
\* delete_by_term on neither partition and leaves both metadata tables as they were.
C3_RerunIsNoOp ==
    RerunWithoutChange =>
        /\ \A part \in Partitions :
               lastRun.upserted[part] = {} /\ lastRun.deleted[part] = {}
        /\ meta = lastRun.metaBefore

\* C3 witness: such a rerun over a tree with indexed files in both partitions and
\* a file that the first run recorded but could not index.
C3_Witness ==
    /\ RerunWithoutChange
    /\ ix["docs"] # {}
    /\ ix["other"] # {}
    /\ MetaKeys(meta, "other") # ix["other"]

\* The run that has just ended was not forced and the only change of the tree
\* since the run before it is the mtime of p, an eligible file outside the shard
\* directory.
RerunAfterTouch(p) ==
    /\ lastRun.ran
    /\ ~lastRun.force
    /\ lastRun.since = <<"touch", p>>
    /\ p \in Walked("other")

StoredTerms == IF stored = <<"none">> THEN {} ELSE stored[2]
QueriedTerms == IF queried = <<"none">> THEN {} ELSE Range(queried[2])

\* The surface words of the text: what the tokenizer cuts out, lowercased.
SurfaceWords == Range(LowercaseFilter(RegexTokenizer(text, 1)))

\* C5: every term the analyzer emits, for the index and for a query, is 2 to 39
\* characters long; a surface word of 1 or of 40 and more characters is neither
\* stored nor a query term; the text `a ab abcde` contributes exactly ab and abcde.
C5_TermLengthBound ==
    /\ \A w \in StoredTerms \cup QueriedTerms : LengthMin <= Len(w) /\ Len(w) <= LengthMax
    /\ \A w \in SurfaceWords :
          (Len(w) < LengthMin \/ Len(w) > LengthMax) =>
              w \notin StoredTerms /\ w \notin QueriedTerms
    /\ (text = JoinWords(<<<<"a">>, <<"a", "b">>, <<"a", "b", "c", "d", "e">>>>)
           /\ stored # <<"none">>)
          => StoredTerms = {<<"a", "b">>, <<"a", "b", "c", "d", "e">>}

\* C5 witness: a text with a 1-character word, a 39-character word and a
\* 40-character word was indexed and parsed as a query, and the 39-character word
\* is a term of both.
C5_Witness ==
    /\ stored # <<"none">>
    /\ queried # <<"none">>
    /\ <<"a">> \in SurfaceWords
    /\ Rep("x", LengthMax + 1) \in SurfaceWords
    /\ Rep("x", LengthMax) \in StoredTerms \cap QueriedTerms

\* C6: in the mapping convert_all_files returns, every shard file <i>.txt written
\* from origin o has id_to_file[str(i)].original_file equal to the resolved absolute
\* path of o and relative_path_to_id["<i>.txt"] equal to str(i), and the two tables
\* name the same ids, each with its file written in the shard directory.
C6_MappingConsistent ==
    shReturned =>
        /\ \A name \in DOMAIN shState.files :
              \E i \in 1..(shState.file_id - 1) :
                 /\ name = TxtFilename(i)
                 /\ Str(i) \in DOMAIN shState.id_to_file
                 /\ shState.id_to_file[Str(i)].original_file
                       = Cwd \o InputDir \o shState.files[name].origin.rel
                 /\ IsAbsolute(shState.id_to_file[Str(i)].original_file)
                 /\ name \in DOMAIN shState.relative_path_to_id
                 /\ shState.relative_path_to_id[name] = Str(i)
        /\ \A id \in DOMAIN shState.id_to_file :
              /\ id \o <<".", "t", "x", "t">> \in DOMAIN shState.relative_path_to_id
              /\ id \o <<".", "t", "x", "t">> \in DOMAIN shState.files
        /\ \A name \in DOMAIN shState.relative_path_to_id :
              /\ shState.relative_path_to_id[name] \in DOMAIN shState.id_to_file
              /\ name = shState.relative_path_to_id[name] \o <<".", "t", "x", "t">>
              /\ name \in DOMAIN shState.files

\* C6 witness: a returned mapping with shards of two origins, written past a
\* failed shard write.
C6_Witness ==
    /\ shReturned
    /\ shState.file_id >= 4
    /\ \E i \in 1..Len(origins) : origins[i].fate.writeFails # {}
    /\ \E a, b \in DOMAIN shState.id_to_file :
          shState.id_to_file[a].original_file # shState.id_to_file[b].original_file

\* Extraction failed on the i-th file: its decoder raised or a shard write failed.
ExtractionFailed(i) ==
    /\ origins[i].file.suffix \in valid_extensions
    /\ origins[i].fate.decodeFails \/ origins[i].fate.writeFails # {}

Without(os, i) == SubSeq(os, 1, i - 1) \o SubSeq(os, i + 1, Len(os))

\* The entries of a table that do not stem from the given origin file.
EntriesOfOthers(table, o) ==
    {<<id, table[id]>> : id \in {x \in DOMAIN table :
                                    table[x].original_file # Resolve(FilePath(o))}}

\* C7: when extraction fails on one origin, the returned ShardMap holds no entry of
\* that origin, and the entries of the other origins are what they would be had
\* the origin been absent.
C7_FailedOriginLeavesNoShards ==
    shReturned =>
        \A i \in 1..Len(origins) :
            ExtractionFailed(i) =>
                /\ \A id \in DOMAIN shState.id_to_file :
                      shState.id_to_file[id].original_file
                          # Resolve(FilePath(origins[i]))
                /\ EntriesOfOthers(shState.id_to_file, origins[i])
                      = EntriesOfOthers(convert_all_files(Without(origins, i)).id_to_file,
                                        origins[i])

\* C8: every hit /search returns with index_type=docs carries the origin file's
\* path relative to the source root, and never a path that starts with the shard
\* directory, whatever the state of the docs index and of mapping.json.
C8_DocsHitsRewrittenToOrigin ==
    response.index_type = "docs" =>
        \A r \in response.results :
            /\ JoinPath(AppDir, r.out.path) \in OriginPaths
            /\ ~IsUnder(r.out.path, <<DocLakeDir>>)

\* C9: for a query of several keywords, every path search_files lists under
\* "Search results" has a lowercase basename that contains every lowercased
\* keyword, also when some keywords are exact keys of the index and others are
\* no keys at all.
C9_AndResultsContainEveryKeyword ==
    searched.status = "found" /\ Len(searched.keywords) >= 2 =>
        \A i \in 1..Len(searched.listed) :
            \A k \in Range(searched.keywords) :
                Contains(LowerStr(Basename(searched.listed[i])), k)

\* the entry analysis holds for a file
AnalysedEntry(file_path) ==
    CHOOSE e \in Range(analysis.entries) : e.file_path = file_path

AnalysedFiles == {analysis.entries[i].file_path : i \in 1..Len(analysis.entries)}

\* the import statements of an analysed file
ImportsOf(e) == Range(e.imports) \cup Range(e.import_froms)

\* C10: after analyze_code_with_enhancements, for every parsed file f and every
\* plain or from-import of f that the path resolver resolves to a parsed file g,
\* g's referenced_by contains {module: module(f), type: import}.
C10_ResolvedImportIsReferenced ==
    analysis.state = "done" =>
        \A f \in Range(analysis.entries) :
            \A imp \in ImportsOf(f) :
                LET resolved == resolve_imported_file_path(imp.module, f.file_path, imp.level)
                IN  resolved.found /\ resolved.path \in AnalysedFiles =>
                        [module |-> f.module, type |-> "import"]
                            \in Range(AnalysedEntry(resolved.path).referenced_by)

\* a relative from-import of one file is resolved to another parsed file, which
\* carries the reference
C10_Witness ==
    /\ analysis.state = "done"
    /\ \E f \in Range(analysis.entries) :
          \E imp \in Range(f.import_froms) :
             LET resolved == resolve_imported_file_path(imp.module, f.file_path, imp.level)
             IN  /\ imp.level > 0
                 /\ resolved.found
                 /\ resolved.path \in AnalysedFiles \ {f.file_path}
                 /\ [module |-> f.module, type |-> "import"]
                        \in Range(AnalysedEntry(resolved.path).referenced_by)

\* the references the binder appended to an analysed file, repeats included
AppendedTo(e) ==
    LET appended == Flatten([i \in 1..Len(analysis.entries) |->
                               ReferencesFrom(analysis.entries[i], analysis.entries)])
        mine == SelectSeq(appended, LAMBDA r : r.target = e.module)
    IN  [i \in 1..Len(mine) |-> mine[i].ref]

\* C11: after analyze_code_with_enhancements, in every file's referenced_by
\* each (source module, type) pair occurs exactly once, however many imports
\* and qualified calls of the source module point at the file.
C11_EachReferenceOnce ==
    analysis.state = "done" =>
        \A e \in Range(analysis.entries) :
            /\ \A i, j \in 1..Len(e.referenced_by) :
                  e.referenced_by[i] = e.referenced_by[j] => i = j
            /\ Range(e.referenced_by) = Range(AppendedTo(e))

\* a file to which the binder appended one pair more than once
C11_Witness ==
    /\ analysis.state = "done"
    /\ \E e \in Range(analysis.entries) :
          /\ \E i, j \in 1..Len(AppendedTo(e)) :
                i # j /\ AppendedTo(e)[i] = AppendedTo(e)[j]
          /\ Len(e.referenced_by) < Len(AppendedTo(e))

\* m.py of the package holds `from . import a` and a.py lies beside it: both are
\* parsed and the graph is built
RelativeImportOfSibling ==
    /\ graph.state = "built"
    /\ PkgInit \in DOMAIN project
    /\ {PkgM, PkgA} \subseteq AnalysedFiles
    /\ FromImport(<<>>, <<<<"a">>>>, 1) \in Range(AnalysedEntry(PkgM).import_froms)

\* C12: when m.py inside a package directory contains `from . import helpers`
\* and helpers.py exists in the same directory, then after binding helpers.py
\* has the incoming reference {module(m), import} and the dependency graph has
\* an import edge from module(m) to module(helpers).
C12_SiblingImportIsBound ==
    RelativeImportOfSibling =>
        /\ [module |-> AnalysedEntry(PkgM).module, type |-> "import"]
              \in Range(AnalysedEntry(PkgA).referenced_by)
        /\ has_edge(graph, AnalysedEntry(PkgM).module, AnalysedEntry(PkgA).module)
        /\ graph.edges[<<AnalysedEntry(PkgM).module, AnalysedEntry(PkgA).module>>].type
              = "import"

\* what the path resolver makes of an import of the analysed file f
ResolverOn(f, imp) == resolve_imported_file_path(imp.module, f.file_path, imp.level)

AnalysedModules == {analysis.entries[i].module : i \in 1..Len(analysis.entries)}

\* C13: when the path resolver cannot resolve an import (plain or from, dotted
\* or atomic), binding falls back to the imported name: if a module of exactly
\* that name is in the project model, each of its files receives {source module,
\* import}; and an import reference is on a file only if some import of the
\* source module resolves to a file of its module or names its module.
C13_UnresolvedImportFallsBackToName ==
    analysis.state = "done" =>
        /\ \A f \in Range(analysis.entries) :
              \A imp \in ImportsOf(f) :
                 ~ResolverOn(f, imp).found /\ imp.module \in AnalysedModules =>
                     \A g \in Range(analysis.entries) :
                        g.module = imp.module =>
                           [module |-> f.module, type |-> "import"]
                               \in Range(g.referenced_by)
        /\ \A g \in Range(analysis.entries) :
              \A ref \in Range(g.referenced_by) :
                 ref.type = "import" =>
                    \E f \in Range(analysis.entries) :
                       /\ f.module = ref.module
                       /\ \E imp \in ImportsOf(f) :
                             IF ResolverOn(f, imp).found
                                THEN /\ ResolverOn(f, imp).path \in AnalysedFiles
                                     /\ AnalysedEntry(ResolverOn(f, imp).path).module
                                            = g.module
                                ELSE imp.module = g.module

\* C14: in the graph built by build_enhanced_graph, for every incoming
\* reference {source, kind} stored on a file of module t there is an edge
\* source -> t carrying that kind; so when source both imports t and makes a
\* qualified call on t, an import edge and a call edge are both represented.
C14_EveryReferenceHasItsEdge ==
    graph.state = "built" =>
        \A g \in Range(analysis.entries) :
            \A ref \in Range(g.referenced_by) :
                /\ has_edge(graph, ref.module, g.module)
                /\ graph.edges[<<ref.module, g.module>>].type = ref.type

\* the path of the last /file request, resolved against the source root
ServedFullPath == ResolvePath(PathJoin(ResolvePath(appDirSetting), served.path))

\* C15: for every /file request whose path, resolved against the source root,
\* lies outside the source root or inside the shard directory, the response is
\* the 403 error and no file content is read; such a path never yields 404 or 200.
C15_OutsideOrShardPathIsDenied ==
    /\ served.state = "answered"
    /\ served.path # <<>>
    /\ \/ ~Within(ServedFullPath, ResolvePath(appDirSetting))
       \/ Within(ServedFullPath, ResolvePath(appDirSetting) \o <<DocLakeDir>>)
    => served.status = 403 /\ served.read = <<>>

\* the nodes of a tree, the tree itself included
RECURSIVE Nodes(_)
Nodes(node) ==
    {node} \cup UNION {Nodes(node.children[k]) : k \in DOMAIN node.children}

\* the directories of the disk, each with its depth below app_dir
RECURSIVE DirsBelow(_, _)
DirsBelow(directory, depth) ==
    {<<directory, depth>>}
        \cup UNION {DirsBelow(directory.children[k], depth + 1) :
                        k \in DOMAIN directory.children}

\* the number of files with the extension anywhere below a directory of the disk
RECURSIVE FilesUnder(_, _)
RECURSIVE FilesUnderEach(_, _, _)
FilesUnderEach(dirs, k, extension) ==
    IF k > Len(dirs) THEN 0
    ELSE FilesUnder(dirs[k], extension) + FilesUnderEach(dirs, k + 1, extension)

FilesUnder(directory, extension) ==
    (IF extension \in {"*", ""} THEN SumCounts(directory.files)
     ELSE IF extension \in DOMAIN directory.files THEN directory.files[extension]
     ELSE 0)
        + FilesUnderEach(directory.children, 1, extension)

\* what a call at the cutoff returns for a node: nothing for a node without a file
\* of the extension, else the one line of the node
Collapsed(node, extension, indent) ==
    IF FilteredCount(node, extension) = 0 THEN <<>>
    ELSE <<FolderLine(indent, <<node.folder>>, FilteredCount(node, extension))>>

\* C16: a tree displayed from indent 0 with max_depth D has no line indented deeper
\* than D; every folder line at indent D bears the unmerged name of a directory at
\* depth D or deeper and the number of files with the extension in its whole
\* subtree; and get_folder_tree_str called at the cutoff on any node of the tree
\* returns that single line and nothing else (nothing at all for a node whose
\* filtered count is 0, which is never displayed).
C16_CutoffCollapsesSubtree ==
    rendered.state = "done" =>
        /\ \A i \in DOMAIN rendered.lines :
               /\ rendered.lines[i].indent <= rendered.max_depth
               /\ (rendered.lines[i].kind = "folder"
                       /\ rendered.lines[i].indent = rendered.max_depth)
                   => \E d \in DirsBelow(folderDisk, 0) :
                          /\ d[2] >= rendered.max_depth
                          /\ rendered.lines[i].name = <<d[1].folder>>
                          /\ rendered.lines[i].count
                                 = FilesUnder(d[1], rendered.extension)
                          /\ rendered.lines[i].count > 0
        /\ \A node \in Nodes(FolderTree), show \in {"None", "True", "False"} :
               get_folder_tree_str(node, rendered.extension, rendered.max_depth,
                                   folderDisk, <<>>, threshold, show,
                                   rendered.max_depth)
                   = Collapsed(node, rendered.extension, rendered.max_depth)

\* a tree shown to depth 1 whose line for "a" stands for "a" and a subdirectory
\* with files of its own
C16_Witness ==
    /\ rendered.state = "done"
    /\ rendered.max_depth = 1
    /\ rendered.extension = ".py"
    /\ \E i \in DOMAIN rendered.lines :
           rendered.lines[i] = FolderLine(1, <<"a">>, 2)
    /\ \E k \in DOMAIN folderDisk.children :
           /\ folderDisk.children[k].folder = "a"
           /\ folderDisk.children[k].files = OnePy
           /\ Len(folderDisk.children[k].children) = 1
    /\ Len(rendered.lines) = 2

\* a content search that found files / that found none
FoundFiles(reply) == reply.kind = "ok" /\ reply.results # <<>>
FoundNothing(reply) == reply.kind = "ok" /\ reply.results = <<>>

\* C17: when search_file_with_retry has returned, it has made at most three content
\* searches; a search that found files is the last one, its text is what was
\* returned and no filename search was made; after each search that found nothing
\* the suggestion endpoint was asked and the next search, if any, used what it
\* answered; and if the last search found nothing, the filename search was made
\* with folder "./" and its text is what was returned.
C17_RetryThenFilenameFallback ==
    retry.pc = "done" =>
        LET n == Len(retryLog.replies)
        IN  /\ n <= 3
            /\ \A i \in 1..n :
                   FoundFiles(retryLog.replies[i]) =>
                       /\ i = n
                       /\ retry.result = search_file(retryLog.replies[i])
                       /\ retryLog.filename = <<>>
            /\ \A i \in 1..n :
                   FoundNothing(retryLog.replies[i]) =>
                       /\ Len(retryLog.suggested) >= i
                       /\ i < n => retryLog.searched[i + 1] = retryLog.suggested[i]
            /\ (n > 0 /\ FoundNothing(retryLog.replies[n])) =>
                   /\ retryLog.filename # <<>>
                   /\ \A k \in DOMAIN retryLog.filename :
                          retryLog.filename[k].folder = "./"
                   /\ \E paths \in FilenameReplies :
                          retry.result = SearchFilesText(paths)

\* the same for calls in which no listed path holds the phrase
C17_HoldsForPlainPaths ==
    (\A i \in DOMAIN retryLog.replies :
         ~HasPhrase(ResultLines(retryLog.replies[i].results, 1)))
        => C17_RetryThenFilenameFallback

\* three searches that found nothing, then the filename search
C17_ThreeAttemptsReached ==
    /\ retry.pc = "done"
    /\ Len(retryLog.replies) = 3
    /\ \A i \in 1..3 : FoundNothing(retryLog.replies[i])
    /\ retryLog.filename # <<>>

\* the loop left early because the suggestion was the query itself
C17_EarlyEndReached ==
    /\ retry.pc = "done"
    /\ Len(retryLog.replies) = 1
    /\ FoundNothing(retryLog.replies[1])
    /\ retryLog.suggested = <<retryLog.searched[1]>>
    /\ retryLog.filename # <<>>

\* what a run must leave alone: the shard files, mapping.json, the partitions and
\* their metadata tables, as they were before any request
PreviousState ==
    IF store.started = "committed" THEN CommittedStore(store.index_dir)
    ELSE EmptyStore(store.index_dir)

\* request r is the only one that has written
OnlyWriter(r) ==
    /\ \A q \in UpdateRequests \ {r} : runs[q] = IdleRun
    /\ \A p \in Partitions :
           /\ store.index[p].by # HandlerRequest
           /\ store.meta[p].by # HandlerRequest

\* C18: an /update run that has failed or was interrupted, at whatever step, has
\* left the shard files, mapping.json and both partitions with their metadata tables
\* as they were when it started.
C18_FailedRunLeavesCommittedState ==
    \A r \in UpdateRequests :
        (runs[r].pc = "failed" /\ OnlyWriter(r))
            => /\ store.shards = PreviousState.shards
               /\ store.mapping = PreviousState.mapping
               /\ store.index = PreviousState.index
               /\ store.meta = PreviousState.meta

\* a run that fails before it has written anything does leave the state alone
C18_RefusedRunReached ==
    \E r \in UpdateRequests :
        /\ runs[r].pc = "failed"
        /\ OnlyWriter(r)
        /\ store = [CommittedStore("refused") EXCEPT !.failures = TRUE]

\* C19: what a reader finds while an ingestion run is under way (none having
\* failed): mapping.json complete whenever a shard file or a committed docs index
\* is there, and, for a reader of the index, each partition's metadata table
\* written by the run that committed the partition.
C19_ReaderSeesConsistentState ==
    (observed.state = "read" /\ observed.concurrent) =>
        LET s == observed
        IN  /\ (s.shards \/ s.docs)
                   => s.mapping = "complete"
            /\ observed.by = "search" => s.agrees

\* the two parts of C19, apart
C19_MappingPart ==
    (observed.state = "read" /\ observed.concurrent) =>
        LET s == observed
        IN  (s.shards \/ s.docs)
                => s.mapping = "complete"

C19_MetadataPart ==
    (observed.state = "read" /\ observed.concurrent /\ observed.by = "search") =>
        observed.agrees

\* C20: no partition has two writers open at once.
C20_OneWriterPerPartition ==
    \A p \in Partitions :
        Cardinality({r \in UpdateRequests \cup {HandlerRequest} :
                         p \in runs[r].holding}) <= 1

\* as long as init does not remove the directory the endpoint indexes into, the
\* write lock of the partition keeps a second writer out
C20_HoldsWhileLockFileStays ==
    store.index_dir # "same" => C20_OneWriterPerPartition

\* a writer is refused because another request holds the partition's lock
C20_LockErrorReached ==
    \E r \in UpdateRequests, p \in Partitions :
        /\ runs[r].pc = "failed"
        /\ store.lock[p] \notin {0, r}
        /\ store.mapping = "complete"
        /\ store.index_dir = "elsewhere"

\* C21: under any interleaving of threads calling update_config,
\* set_doc_lake_dir and get_config, the writes are serialized by the lock: when
\* no write is under way config.json holds the effect of every completed
\* write, in the order of completion, and every get_config that ends has read
\* a whole configuration, the content of the file after some prefix of the
\* completed writes.
C21_WritesSerializedReadsWhole ==
    /\ configLock.owner = NoThread
            => configFile = WholeFile(completed.expected)
    /\ \A t \in ConfigThreads :
            callers[t].op = "get_config" /\ callers[t].pc \in {"return", "raise"}
                => /\ callers[t].config.complete
                   /\ callers[t].config.config \in completed.contents

\* two writes have completed, a get_config has read the content between them
\* and returns while a third write has emptied the file
C21_ReadBetweenWritesReached ==
    /\ Cardinality(completed.contents) >= 3
    /\ \E t, u \in ConfigThreads :
            /\ callers[t].op = "get_config" /\ callers[t].pc = "return"
            /\ callers[t].config.config # completed.expected
            /\ callers[t].config.config # ShippedConfig
            /\ callers[u].pc = "dump"
            /\ ~configFile.complete

\* the extensions convert_file turns into shards (docs_lake_initializer.py,
\* lines 107-115)
ShardedExtensions ==
    {".xlsx", ".xls", ".xlsm", ".doc", ".docx", ".odt", ".pdf", ".ppt", ".pptx"}

\* the shard files of a file according to mapping.json, in ascending id order
ShardFilesOf(full_path) ==
    LET ids == SelectSeq(<<1, 2, 3>>,
                         LAMBDA id : ResolvePath(IdToFileOnDisk[id].original_file) = full_path)
    IN  [i \in 1..Len(ids) |-> get_docs_lake_dir \o <<Str(ids[i])[1] \o ".txt">>]

\* the last /file request named an existing file under the source root that
\* has entries in mapping.json, all its shard files being there
ServedShardedFile ==
    /\ served.state = "answered"
    /\ served.path # <<>>
    /\ Within(ServedFullPath, ResolvePath(appDirSetting))
    /\ ServedFullPath \in webFiles
    /\ PathExists(get_docs_lake_dir \o <<"mapping.json">>)
    /\ ShardFilesOf(ServedFullPath) # <<>>
    /\ \A i \in DOMAIN ShardFilesOf(ServedFullPath) :
            PathExists(ShardFilesOf(ServedFullPath)[i])

\* C22: for every existing origin file whose extension belongs to the office
\* family handled by the shard extractor (xls, xlsx, xlsm, doc, docx, odt, pdf,
\* ppt, pptx) and that has entries in the ShardMap, /file answers with the
\* texts of exactly its shards, in ascending numeric shard-id order.
C22_OfficeFileServedFromItsShards ==
    (ServedShardedFile /\ SuffixOf(ServedFullPath) \in ShardedExtensions)
        => served.status = 200 /\ served.read = ShardFilesOf(ServedFullPath)

\* the same for the extensions /file itself lists (line 335)
C22_HoldsForAllowedExtensions ==
    (ServedShardedFile /\ SuffixOf(ServedFullPath) \in allowed_extensions)
        => served.status = 200 /\ served.read = ShardFilesOf(ServedFullPath)

\* a sharded .pdf has been served from its two shards
C22_ShardsServedReached ==
    /\ ServedShardedFile
    /\ SuffixOf(ServedFullPath) = ".pdf"
    /\ Len(served.read) = 2

\* the names of the package directories immediately above a file: upwards from
\* its directory as long as each directory holds __init__.py, base_dir excluded
RECURSIVE PackageRunAbove(_)
PackageRunAbove(dir) ==
    IF dir = LayoutRoot \/ ~exists(Append(dir, InitPy)) THEN <<>>
    ELSE Append(PackageRunAbove(dirname(dir)), dir[Len(dir)])

\* C23: the module name determine_module_name gives a file is the maximal run
\* of consecutive package directories immediately above the file, joined by
\* dots, alone when the file is __init__.py and followed by the file stem
\* otherwise; a directory without __init__.py resets the run.
C23_ModuleNameIsThePackageRun ==
    resolution.kind = "module" =>
        LET file == resolution.of
            basename == file[Len(file)]
            stem == SubSeq(basename, 1, Len(basename) - Len(DotPy))
            run == PackageRunAbove(dirname(file))
        IN  resolution.name =
                JoinDots(IF basename = InitPy THEN run ELSE Append(run, stem))

\* x and z are packages and y between them is not: the name of x/y/z/g.py is z.g
C23_ResetReached ==
    /\ resolution.kind = "module"
    /\ resolution.of = FileInZ
    /\ Append(DirX, InitPy) \in layout.files
    /\ Append(DirY, InitPy) \notin layout.files
    /\ Append(DirZ, InitPy) \in layout.files
    /\ resolution.name = <<"z", ".", "g">>

\* the candidates of "import m" written in a file, in the order of the claim:
\* sibling file, sibling directory, parent-sibling file, parent-sibling package
SiblingDir(current_file) == Append(dirname(current_file), ImportedName)
ParentSiblingDir(current_file) == Append(dirname(dirname(current_file)), ImportedName)

CandidatesInOrder(current_file) ==
    LET here == dirname(current_file)
        above == dirname(here)
    IN  << [there |-> exists(Append(here, ImportedName \o DotPy)),
            path |-> Append(here, ImportedName \o DotPy)],
           [there |-> isdir(SiblingDir(current_file)),
            path |-> IF exists(Append(SiblingDir(current_file), InitPy))
                     THEN Append(SiblingDir(current_file), InitPy)
                     ELSE SiblingDir(current_file)],
           [there |-> exists(Append(above, ImportedName \o DotPy)),
            path |-> Append(above, ImportedName \o DotPy)],
           [there |-> isdir(ParentSiblingDir(current_file))
                        /\ exists(Append(ParentSiblingDir(current_file), InitPy)),
            path |-> Append(ParentSiblingDir(current_file), InitPy)] >>

\* the result is the first candidate that exists, and nothing when none does
FirstCandidateReturned ==
    LET candidates == CandidatesInOrder(resolution.of)
        there == {k \in DOMAIN candidates : candidates[k].there}
    IN  IF there = {} THEN ~resolution.result.found
        ELSE /\ resolution.result.found
             /\ resolution.result.path =
                    candidates[CHOOSE k \in there : \A j \in there : k <= j].path

\* a bare directory is returned only when no candidate has a package marker
MarkerPreferred ==
    resolution.result.type = "namespace"
        => ~exists(Append(ParentSiblingDir(resolution.of), InitPy))

\* C24: for an atomic name at level 0, resolve_imported_file_path returns the
\* first existing candidate in the order sibling file, sibling directory (its
\* __init__.py when marked, else the bare directory), parent-sibling file,
\* parent-sibling directory with __init__.py, and nothing only when none
\* exists; a candidate with a package marker is always preferred over a bare
\* directory.
C24_FirstCandidateAndMarkerPreferred ==
    resolution.kind = "import" => FirstCandidateReturned /\ MarkerPreferred

\* the order alone
C24_FirstCandidateHolds ==
    resolution.kind = "import" => FirstCandidateReturned

\* the parent-sibling package is returned, nothing being beside the file
C24_ParentSiblingPackageReached ==
    /\ resolution.kind = "import"
    /\ resolution.result.found
    /\ resolution.result.path = Append(ParentSiblingDir(resolution.of), InitPy)

\* a path is located under the shard directory
UnderShardDirectory(p) == p.dir = DocLakeDir

\* C25: after every update_index run the two partitions are disjoint and
\* correctly scoped: every key of docs is a .txt file under the shard
\* directory, no key of other is under the shard directory or has a binary
\* extension, and a file outside the shard directory is never placed in docs.
C25_PartitionsScoped ==
    lastRun.ran =>
        /\ ix["docs"] \cap ix["other"] = {}
        /\ \A p \in ix["docs"] : p.ext = ".txt" /\ UnderShardDirectory(p)
        /\ \A p \in ix["other"] :
                ~UnderShardDirectory(p) /\ p.ext \notin binary_extensions

\* the same, leaving aside the files whose path merely begins with the path
\* of the shard directory
C25_HoldsApartFromPrefixedNames ==
    lastRun.ran =>
        /\ ix["docs"] \cap ix["other"] = {}
        /\ \A p \in ix["docs"] \ {OldNotes} : p.ext = ".txt" /\ UnderShardDirectory(p)
        /\ \A p \in ix["other"] :
                ~UnderShardDirectory(p) /\ p.ext \notin binary_extensions

\* a run has put the shard in docs and both source files in other
C25_BothPartitionsFilledReached ==
    /\ lastRun.ran
    /\ ShardPath \in ix["docs"]
    /\ {SourceA, SourceB} \subseteq ix["other"]

\* the files of a partition that can be indexed: no NUL byte in the first
\* kilobyte, and UTF-8 text
Indexable(part) == {p \in Walked(part) : ~is_binary_file(p) /\ Readable(p)}

\* the last run found the metadata sidecar of the partition unreadable
SidecarFailed(part) ==
    /\ lastRun.ran
    /\ ~lastRun.force
    /\ lastRun.metaBefore[part].state = "corrupt"

\* C26: when loading a partition's metadata sidecar fails, update_index takes
\* the previous metadata for empty and rebuilds the partition in that run:
\* every currently eligible file of the partition is upserted into a fresh
\* index, and the persisted metadata afterwards covers exactly the current
\* eligible files.
C26_FailedSidecarRebuildsPartition ==
    \A part \in Partitions :
        SidecarFailed(part) =>
            /\ lastRun.upserted[part] = Walked(part)
            /\ ix[part] = Walked(part)
            /\ meta[part] = [state |-> "ok", table |-> CurrentMetadata(part)]

\* the same when every eligible file can be indexed
C26_HoldsForIndexableFiles ==
    \A part \in Partitions :
        (SidecarFailed(part) /\ Indexable(part) = Walked(part)) =>
            /\ lastRun.upserted[part] = Walked(part)
            /\ ix[part] = Walked(part)
            /\ meta[part] = [state |-> "ok", table |-> CurrentMetadata(part)]

\* a run after the sidecar of other became unreadable has rebuilt other from
\* an index that held a path no longer on disk
C26_RebuildReached ==
    /\ SidecarFailed("other")
    /\ Indexable("other") = Walked("other")
    /\ SourceA \notin DOMAIN disk
    /\ ix["other"] = {SourceB}

\* every node of the tree bears, for each extension, the number of files with
\* that extension anywhere below the directory it stands for
RECURSIVE WholeCounts(_, _)
WholeCounts(node, directory) ==
    /\ node.folder = directory.folder
    /\ \A e \in FolderExtensions : FilteredCount(node, e) = FilesUnder(directory, e)
    /\ \A j \in DOMAIN node.children :
           \E k \in DOMAIN directory.children :
               /\ node.children[j].folder = directory.children[k].folder
               /\ WholeCounts(node.children[j], directory.children[k])

\* C27 as stated: for every directory tree, every node's count for each
\* extension equals the number of files with that extension anywhere in the
\* node's subtree.
C27_CountsOfWholeSubtree ==
    fanout.pc = "done" => WholeCounts(fanout.node, fanout.directory)

\* the number of files with the extension in the directories at most levels
\* below a directory
RECURSIVE FilesWithin(_, _, _)
RECURSIVE FilesWithinEach(_, _, _, _)
FilesWithinEach(dirs, k, extension, levels) ==
    IF k > Len(dirs) THEN 0
    ELSE FilesWithin(dirs[k], extension, levels)
            + FilesWithinEach(dirs, k + 1, extension, levels)

FilesWithin(directory, extension, levels) ==
    IF levels < 0 THEN 0
    ELSE (IF extension \in DOMAIN directory.files THEN directory.files[extension] ELSE 0)
            + FilesWithinEach(directory.children, 1, extension, levels - 1)

\* every directory down to one level below the limit has its node, in any
\* order among its siblings, with the counts of the files within the limit;
\* a node below the limit has no children
RECURSIVE CountsWithin(_, _, _)
CountsWithin(node, directory, levels) ==
    /\ node.folder = directory.folder
    /\ \A e \in FolderExtensions :
           FilteredCount(node, e) = FilesWithin(directory, e, levels)
    /\ IF levels < 0 THEN node.children = <<>>
       ELSE /\ Len(node.children) = Len(directory.children)
            /\ \A k \in DOMAIN directory.children :
                   \E j \in DOMAIN node.children :
                       CountsWithin(node.children[j], directory.children[k], levels - 1)

\* the height of a directory tree
RECURSIVE Height(_)
Height(directory) ==
    IF directory.children = <<>> THEN 0
    ELSE LET below == {Height(directory.children[k]) : k \in DOMAIN directory.children}
         IN  1 + CHOOSE h \in below : \A x \in below : x <= h

\* two trees that differ at most in the order of the children of the root
SameUpToOrder(a, b) ==
    /\ a.folder = b.folder
    /\ a.extensions = b.extensions
    /\ Len(a.children) = Len(b.children)
    /\ {a.children[k] : k \in DOMAIN a.children} = {b.children[k] : k \in DOMAIN b.children}

\* C27, amended: every node's count for each extension is the number of files
\* with that extension in the directories of its subtree that lie at most
\* max_depth levels below the directory given, which in a tree no deeper than
\* max_depth is the number of files anywhere in its subtree; and the tree is,
\* up to the order of the children, the one the sequential loop gives,
\* whatever order the workers complete in.
C27_CountsWithinMaxDepth ==
    fanout.pc = "done" =>
        /\ CountsWithin(fanout.node, fanout.directory, fanout.max_depth)
        /\ Height(fanout.directory) <= fanout.max_depth
               => WholeCounts(fanout.node, fanout.directory)
        /\ SameUpToOrder(fanout.node,
                         build_folder_tree_json(fanout.directory, fanout.max_depth, 0))

\* six futures have completed, the last subdirectory first, and the tree is
\* whole
C27_FanoutReached ==
    /\ fanout.pc = "done"
    /\ Len(fanout.directory.children) = 6
    /\ fanout.max_depth = DefaultMaxDepth
    /\ fanout.node.children[1].folder = "d6"
    /\ fanout.node.children[2].folder = "d3"
    /\ FilteredCount(fanout.node, ".py") >= 4

\* the progress messages 1..n in the order of the queue
ProgressUpTo(n) == [i \in 1..n |-> Progress(i)]

\* what the stream has emitted and what is still queued make up, in this
\* order, the messages the thread has put; once the stream is closed the
\* thread has ended, every message has been emitted and the final event, one
\* only, comes last
DeliveredInOrder ==
    IF stream.pc = "closed"
    THEN /\ worker.pc = "ended"
         /\ progress_queue = <<>>
         /\ stream.emitted =
                Append(ProgressUpTo(worker.put),
                       FinalEvent(IF worker.raised THEN "error" ELSE "success"))
    ELSE stream.emitted \o progress_queue = ProgressUpTo(worker.put)

\* C28: the /update event stream delivers every progress message the
\* update_index thread put on the queue, each exactly once and in queue order,
\* before the final success or error event; no message is lost or emitted
\* after the final event; and the stream ends once the thread has finished.
C28_EveryMessageThenFinalEvent ==
    /\ []DeliveredInOrder
    /\ (worker.pc = "ended") ~> (stream.pc = "closed")

\* the thread has put all its messages and raised, and the stream has closed
\* with every message before the error event
C28_LateMessageReached ==
    /\ stream.pc = "closed"
    /\ worker.put = MaxMessages
    /\ worker.raised
    /\ Len(stream.emitted) = MaxMessages + 1

\* the lists a request returns are the queries its own agent recorded and the
\* files its own agent read, in order
OwnEntriesReturned(r) ==
    /\ agents[r].result.search_queries = agents[r].queries
    /\ agents[r].result.file_paths = agents[r].paths

\* C29: the lists of search queries and file paths returned for a request
\* hold only that request's queries and paths, the state being reset for each
\* request: concurrent requests never see each other's entries nor lose
\* their own.
C29_OnlyOwnEntriesReturned ==
    \A r \in AgentRequests : agents[r].pc = "returned" => OwnEntriesReturned(r)

\* the same for a request during whose run no other agent was running
C29_HoldsForRequestsAlone ==
    \A r \in AgentRequests :
        (agents[r].pc = "returned" /\ agents[r].alone) => OwnEntriesReturned(r)

\* a request that ran alone has returned its query and its file
C29_AloneReached ==
    \E r \in AgentRequests :
        /\ agents[r].pc = "returned"
        /\ agents[r].alone
        /\ Len(agents[r].result.search_queries) = 1
        /\ Len(agents[r].result.file_paths) = 1

\* C30: delete_index removes a directory only if its path holds no "*" and
\* ends with "__". For any other path the delete_index step of init ends the
\* request as failed and leaves the shard files, mapping.json and both index
\* partitions with their metadata as they were, and the request never comes to
\* clear the shard directory, to extract, or to call update_index.
Removable(index_dir) ==
    (\A i \in 1..Len(index_dir) : index_dir[i] # "*") /\ index_dir[Len(index_dir)] = "__"

BeyondDeleteIndex(r) == runs[r].pc \notin {"idle", "delete_index", "failed"}

RefusalLeavesEverything ==
    \A r \in UpdateRequests :
        (runs[r].pc = "delete_index" /\ runs'[r] # runs[r]) =>
            \/ Removable(IndexDirText(store.index_dir))
            \/ /\ runs'[r] = Ended("failed")
               /\ store'.shards = store.shards
               /\ store'.mapping = store.mapping
               /\ store'.index = store.index
               /\ store'.meta = store.meta

C30_RefusedDeleteLeavesStoreUnchanged ==
    /\ [][RefusalLeavesEverything]_vars
    /\ [](\A r \in UpdateRequests :
              BeyondDeleteIndex(r) => Removable(IndexDirText(store.index_dir)))

\* a pattern that ends with "__" was refused while shards and both partitions
\* were in place
C30_StarredPathRefusedReached ==
    \E r \in UpdateRequests :
        /\ runs[r].pc = "failed"
        /\ store.index_dir = "starred"
        /\ store.shards # {}
        /\ store.mapping = "complete"
        /\ \A p \in Partitions : store.index[p].state = "committed"

=============================================================================
